---- MODULE Spec2Model ----
(***************************************************************************)
(* Kinetic_shape_reconstruction_3 (CGAL, Kinetic_shape_reconstruction):    *)
(* the driver of the kinetic partition.  The driver's members are m_data,  *)
(* m_queue, m_min_time, m_max_time and m_verbose; partition() builds the   *)
(* support planes, makes the polygons intersection free and (behind an     *)
(* unconditional exit) runs the event loop initialize_queue / run / apply. *)
(*                                                                         *)
(* KSR_3::Data_structure, KSR_3::Event and KSR_3::Event_queue are included *)
(* by the driver but their sources are not part of the source tree at      *)
(* hand; their operations are modelled from the specification and every    *)
(* geometric answer they give (an intersection found or not, a collision,  *)
(* a transfer that succeeds or not) is a nondeterministic choice.          *)
(*                                                                         *)
(* CGAL_assertion is modelled as compiled in: a failing assertion ends the *)
(* process (pc = "aborted").  CGAL_warning_msg prints and continues.       *)
(***************************************************************************)
EXTENDS Integers, Sequences, FiniteSets, Bags, TLC

(***************************************************************************)
(* Bounds of the model.                                                    *)
(***************************************************************************)
MaxInput == 2        \* input_range.size() ranges over 0..MaxInput
MaxK == 2            \* the argument k ranges over 0..MaxK
MaxRatio == 11       \* enlarge_bbox_ratio ranges over 9/10 .. MaxRatio/10
MaxTimeStep == 1     \* the precomputed time_step ranges over 1..MaxTimeStep
MaxWindows == 1      \* number of time windows opened by partition's loop
MaxIter == 2         \* number of events applied inside one call of run
MaxQueue == 2        \* events the geometry lets be pending at the same time
MaxPush == 1         \* events the geometry lets one batch of vertices push
MaxPVertices == 6    \* polygon vertices that can exist in the simulated plane
PolygonSize == 3     \* vertices of an input polygon (a triangle)

(***************************************************************************)
(* Program constants.                                                      *)
(***************************************************************************)
RatioUnit == 10      \* ratios are counted in tenths: the default is 11/10
NumBboxFaces == 6

Ratios == (RatioUnit - 1)..MaxRatio
NoTime == -1         \* FT(-1), the initial m_min_time / m_max_time

(***************************************************************************)
(* Identities.  A support plane is its index, an IVertex an integer, an    *)
(* IEdge the set of its two IVertices, a PFace and a PVertex an integer.   *)
(***************************************************************************)
null_iedge == {}
null_pvertex == 0
null_ivertex == -1

\* bounding_box_to_polygons: the corner indices of the 6 faces, in order.
BboxFaces ==
  << <<0, 1, 2, 3>>, <<0, 1, 6, 5>>, <<1, 2, 7, 6>>,
     <<2, 3, 4, 7>>, <<3, 0, 5, 4>>, <<5, 6, 7, 4>> >>

\* The boundary segments of a ring of corners, each as a set of two corners.
RingEdges(ring) ==
  { {ring[i], ring[(i % Len(ring)) + 1]} : i \in 1..Len(ring) }

\* Data_structure::add_bbox_polygon: support plane i is bbox face i + 1; its
\* corners become IVertices and its sides IEdges shared with the neighbours.
BboxIVertices == UNION { {f[i] : i \in 1..Len(f)} : f \in {BboxFaces[j] : j \in 1..Len(BboxFaces)} }
BboxPlaneIEdges(i) == RingEdges(BboxFaces[i + 1])
BboxIEdges == UNION { BboxPlaneIEdges(i) : i \in 0..(NumBboxFaces - 1) }
BboxIPlanes(e) == { i \in 0..(NumBboxFaces - 1) : e \in BboxPlaneIEdges(i) }

\* Data_structure::add_input_polygon: the plane of input polygon number idx
\* becomes support plane NumBboxFaces + idx; it meets the four side faces
\* 1..4 of the box along four IEdges between four new IVertices.
InputPlane(idx) == NumBboxFaces + idx
InputIVertex(p, j) == 8 + 4 * (p - NumBboxFaces) + (j % 4)
InputSideIEdge(p, j) == {InputIVertex(p, j), InputIVertex(p, j + 1)}
InputPlaneIEdges(p) == { InputSideIEdge(p, j) : j \in 0..3 }
InputSidePlane(j) == j + 1

\* Data_structure::add_iedge for the transverse line of two input planes.
CrossIEdge(p, q) == {100 + 10 * p + q, 200 + 10 * p + q}

VARIABLES
  pc,            \* position of the driver
  m_verbose,     \* const bool m_verbose
  args,          \* the arguments of the partition call in progress
  time_step,     \* partition's local time_step
  nsp,           \* m_data.number_of_support_planes()
  g_iedges,      \* m_data.iedges(): the IEdges of the global graph
  sp_iedges,     \* m_data.iedges(i): the IEdges plane i lists
  iplanes,       \* m_data.intersected_planes(iedge)
  mesh_valid,    \* m_data.is_mesh_valid(i)
  k,             \* m_data.k(pface), for every PFace
  face_sp,       \* support plane of every PFace
  ring,          \* boundary vertices of every PFace, in order
  pv,            \* the PVertices: support plane, face, iedge, frozen, active
  current_time,  \* m_data.current_time()
  m_queue,       \* the event queue, a bag of events
  m_min_time,
  m_max_time,
  windows,       \* partition's num_iterations
  iterations,    \* run's iterations
  integrity,     \* value returned by the last check_integrity call
  checks,        \* number of check_integrity calls made
  last_pop,      \* time of the event popped last in the current run
  trace,         \* what the apply of run's current iteration did, in order
  failure,       \* the assertion that ended the process, "" if none
  ivertices,     \* m_data.ivertices(): the planes every IVertex lies on
  map_p2vv,      \* make_polygons_intersection_free's map_p2vv
  todo,          \* make_polygons_intersection_free's todo
  attempts,      \* the 2D intersections make_polygons_intersection_free tried
  splits,        \* the planes handed to split_support_plane, in order
  query,         \* pt, t0, t1, t2 of a call of squared_distance_to_triangle
  inside,        \* the flag that call is given by reference
  result         \* the value it returns

data_vars == <<nsp, g_iedges, sp_iedges, iplanes, mesh_valid, k, face_sp, ring, pv, current_time>>
driver_vars == <<m_queue, m_min_time, m_max_time>>
hist_vars == <<integrity, checks, last_pop, trace, failure>>
graph_vars == <<ivertices, map_p2vv, todo, attempts, splits>>
distance_vars == <<query, inside, result>>
vars == <<pc, m_verbose, graph_vars, distance_vars, args, time_step, data_vars, driver_vars, windows, iterations, hist_vars>>

\* What an apply did: the calls it made in order and the vertex batches
\* it recomputed, the face and budget it started with, the answers of
\* collision_occured and the partner of a two-vertex crossing; parallel is
\* whether the boundary edge to prev and the one to next are parallel to the
\* target IEdge by are_parallel; star and crossed are the vertices handed to
\* merge_pvertices_on_ivertex and the IEdges it returned as crossed.
Trace(kind, ops, batches, pface, kbefore, c, b, c2, b2, partner) ==
  [kind |-> kind, ops |-> ops, batches |-> batches, pface |-> pface, kbefore |-> kbefore,
   collision |-> c, bbox_reached |-> b, collision_other |-> c2, bbox_reached_other |-> b2,
   partner |-> partner, parallel |-> <<FALSE, FALSE>>, star |-> << >>, crossed |-> {}]

\* lines 536-539 with the planes of the bounding box left out
SplitOrder_InputOnly(n) == [i \in 1..(n - NumBboxFaces) |-> NumBboxFaces + i - 1]

\* lines 536-539: split_support_plane(i) for i = 0 .. number_of_support_planes() - 1
SplitOrder(n) == [i \in 1..n |-> i - 1]

\* The intersection pass of make_polygons_intersection_free is followed on
\* its own, in MpifSpec, and squared_distance_to_triangle in DistanceSpec;
\* everywhere else their variables are empty.
NoIntersectionPass ==
  /\ query = << >>
  /\ inside = FALSE
  /\ result = << >>
  /\ ivertices = << >>
  /\ map_p2vv = << >>
  /\ todo = << >>
  /\ attempts = {}

NoTraceRecord == Trace("none", << >>, << >>, 0, 0, FALSE, FALSE, FALSE, FALSE, null_pvertex)

NoArgs == [n |-> 0, k |-> 0, ratio |-> 0, reorient |-> FALSE]

\* Kinetic_shape_reconstruction_3(verbose): a default-constructed m_data and
\* m_queue, both times FT(-1).
Init ==
  /\ pc = "idle"
  /\ m_verbose \in BOOLEAN
  /\ NoIntersectionPass
  /\ args = NoArgs
  /\ time_step = 0
  /\ nsp = 0
  /\ g_iedges = {}
  /\ sp_iedges = << >>
  /\ iplanes = << >>
  /\ mesh_valid = << >>
  /\ k = << >>
  /\ face_sp = << >>
  /\ ring = << >>
  /\ pv = << >>
  /\ current_time = 0
  /\ m_queue = EmptyBag
  /\ m_min_time = NoTime
  /\ m_max_time = NoTime
  /\ windows = 0
  /\ iterations = 0
  /\ integrity = "none"
  /\ checks = 0
  /\ last_pop = NoTime
  /\ trace = NoTraceRecord
  /\ failure = ""
  /\ splits = << >>

(***************************************************************************)
(* The structures built by add_polygons and make_polygons_intersection_free *)
(* for n input polygons in general position (one support plane each).      *)
(***************************************************************************)
Planes(n) == 0..(NumBboxFaces + n - 1)
InputPlanes(n) == NumBboxFaces..(NumBboxFaces + n - 1)
PlanePairs(n) == { pq \in InputPlanes(n) \X InputPlanes(n) : pq[1] < pq[2] }

\* m_data.iedges(i) after add_polygons.
AddedSpIEdges(n) ==
  [i \in Planes(n) |->
     IF i < NumBboxFaces
     THEN BboxPlaneIEdges(i) \cup
          { InputSideIEdge(p, j) : <<p, j>> \in { pj \in InputPlanes(n) \X (0..3) : InputSidePlane(pj[2]) = i } }
     ELSE InputPlaneIEdges(i)]

\* m_data.iedges() after add_polygons.
AddedIEdges(n) == BboxIEdges \cup UNION { InputPlaneIEdges(p) : p \in InputPlanes(n) }

\* m_data.intersected_planes(iedge) after add_polygons.
AddedIPlanes(n) ==
  [e \in AddedIEdges(n) |->
     IF e \in BboxIEdges
     THEN BboxIPlanes(e)
     ELSE LET pj == CHOOSE pj \in InputPlanes(n) \X (0..3) : InputSideIEdge(pj[1], pj[2]) = e
          IN  {InputSidePlane(pj[2]), pj[1]}]

\* One PFace per bbox plane (faces 1..6) and one per input polygon.
BboxFace(i) == i + 1
InputFace(idx) == NumBboxFaces + idx + 1
AddedFaces(n) == 1..(NumBboxFaces + n)
AddedFaceSp(n) == [f \in AddedFaces(n) |-> f - 1]

\* The vertices of input polygon idx: all free, active and moving.  The
\* corners of the bbox faces are frozen from the start and carry no events;
\* they are left out of the rings.
InputPVertices(idx) == (idx * PolygonSize + 1)..((idx + 1) * PolygonSize)
AddedRing(n) ==
  [f \in AddedFaces(n) |->
     IF f <= NumBboxFaces THEN << >>
     ELSE [i \in 1..PolygonSize |-> (f - NumBboxFaces - 1) * PolygonSize + i]]
AddedPV(n) ==
  [v \in 1..(n * PolygonSize) |->
     [sp |-> InputPlane((v - 1) \div PolygonSize),
      face |-> InputFace((v - 1) \div PolygonSize),
      iedge |-> null_iedge, frozen |-> FALSE, active |-> TRUE]]

\* add_iedge for the pairs of input planes whose transverse line was found.
CrossedSpIEdges(spi, X) ==
  [i \in DOMAIN spi |->
     spi[i] \cup { CrossIEdge(pq[1], pq[2]) : pq \in { x \in X : x[1] = i \/ x[2] = i } }]
CrossedIEdges(ge, X) == ge \cup { CrossIEdge(pq[1], pq[2]) : pq \in X }
CrossedIPlanes(ipl, X) ==
  [e \in CrossedIEdges(DOMAIN ipl, X) |->
     IF e \in DOMAIN ipl THEN ipl[e]
     ELSE LET pq == CHOOSE pq \in X : CrossIEdge(pq[1], pq[2]) = e IN {pq[1], pq[2]}]

(***************************************************************************)
(* A mutator of Data_structure may leave the structure consistent, or, by  *)
(* a structural bug, break one of the three conditions check_integrity     *)
(* tests.  The damage is placed on the last support plane.                 *)
(***************************************************************************)
Faults == {"none", "mesh", "local", "global"}

FaultyMeshValid(mv, fault) ==
  IF fault = "mesh" /\ DOMAIN mv # {}
  THEN LET p == CHOOSE p \in DOMAIN mv : \A q \in DOMAIN mv : q <= p
       IN  [mv EXCEPT ![p] = FALSE]
  ELSE mv

\* "global": the last plane forgets an IEdge that still names the plane.
FaultySpIEdges(spi, fault) ==
  IF fault = "global" /\ DOMAIN spi # {}
  THEN LET p == CHOOSE p \in DOMAIN spi : \A q \in DOMAIN spi : q <= p
       IN  IF spi[p] = {} THEN spi
           ELSE [spi EXCEPT ![p] = @ \ {CHOOSE e \in spi[p] : TRUE}]
  ELSE spi

\* "local": an IEdge listed by the last plane forgets that plane.
FaultyIPlanes(ipl, spi, fault) ==
  IF fault = "local" /\ DOMAIN spi # {}
  THEN LET p == CHOOSE p \in DOMAIN spi : \A q \in DOMAIN spi : q <= p
       IN  IF spi[p] = {} THEN ipl
           ELSE [ipl EXCEPT ![CHOOSE e \in spi[p] : TRUE] = @ \ {p}]
  ELSE ipl

(***************************************************************************)
(* check_integrity (lines 417-460).                                        *)
(***************************************************************************)
\* First loop: every plane has a valid mesh and is named by every IEdge it
\* lists.
PlanesAgree(n, mv, spi, ipl) ==
  \A i \in 0..(n - 1) : mv[i] /\ \A e \in spi[i] : i \in ipl[e]

\* check_integrity without its second loop.
IEdgesAgree_Skipped(ge, spi, ipl) == TRUE

\* Second loop: every IEdge of the graph is listed by every plane it names.
IEdgesAgree(ge, spi, ipl) ==
  \A e \in ge : \A p \in ipl[e] : e \in spi[p]

check_integrity(n, ge, mv, spi, ipl) ==
  PlanesAgree(n, mv, spi, ipl) /\ IEdgesAgree(ge, spi, ipl)

IntegrityNow == check_integrity(nsp, g_iedges, mesh_valid, sp_iedges, iplanes)

(***************************************************************************)
(* partition (lines 88-204).                                               *)
(***************************************************************************)
Halt(msg) == pc' = "aborted" /\ failure' = msg

\* The validation without the test of k.
InputRejected_NoKTest(a) == a.n = 0 \/ a.ratio < RatioUnit

\* The three validation tests of lines 96-112.
InputRejected(a) == a.n = 0 \/ a.k = 0 \/ a.ratio < RatioUnit

\* Lines 95-112: the call and its validation.  A rejected call returns false;
\* the instance can be called again.
PartitionCall ==
  /\ pc \in {"idle", "returned_false"}
  /\ \E n \in 0..MaxInput, kk \in 0..MaxK, r \in Ratios, reorient \in BOOLEAN :
       args' = [n |-> n, k |-> kk, ratio |-> r, reorient |-> reorient]
  /\ pc' = IF InputRejected(args') THEN "returned_false" ELSE "create_bounding_box"
  /\ UNCHANGED <<m_verbose, distance_vars, graph_vars, time_step, data_vars, driver_vars, windows, iterations, hist_vars>>

\* enlarge_bounding_box (lines 312-327) asserts enlarge_bbox_ratio > 1.
EnlargeAsserts(a) == a.ratio > RatioUnit

\* create_bounding_box (lines 243-272): initialize_optimal_box is an
\* assertion that always fails; time_step is the box diagonal over 50.
CreateBoundingBox ==
  /\ pc = "create_bounding_box"
  /\ IF args.reorient
     THEN Halt("TODO: IMPLEMENT THE ORIENTED OPTIMAL BBOX!") /\ UNCHANGED time_step
     ELSE IF ~EnlargeAsserts(args)
     THEN Halt("TODO: HANDLE THE CASE ENLARGE_BBOX_RATIO = FT(1)") /\ UNCHANGED time_step
     ELSE /\ \E ts \in 1..MaxTimeStep : time_step' = ts
          /\ pc' = "add_polygons"
          /\ UNCHANGED failure
  /\ UNCHANGED <<m_verbose, distance_vars, graph_vars, args, data_vars, driver_vars, windows, iterations, integrity, checks, last_pop, trace>>

\* add_polygons (lines 373-415): the 6 bbox faces, then the input polygons.
AddPolygons ==
  /\ pc = "add_polygons"
  /\ \E fault \in Faults :
       LET n == args.n IN
       /\ nsp' = NumBboxFaces + n
       /\ g_iedges' = AddedIEdges(n)
       /\ sp_iedges' = FaultySpIEdges(AddedSpIEdges(n), fault)
       /\ iplanes' = FaultyIPlanes(AddedIPlanes(n), AddedSpIEdges(n), fault)
       /\ mesh_valid' = FaultyMeshValid([i \in Planes(n) |-> TRUE], fault)
       /\ k' = [f \in AddedFaces(n) |-> 0]
       /\ face_sp' = AddedFaceSp(n)
       /\ ring' = AddedRing(n)
       /\ pv' = AddedPV(n)
  /\ pc' = "check_integrity_1"
  /\ UNCHANGED <<m_verbose, distance_vars, graph_vars, args, time_step, current_time, driver_vars, windows, iterations, hist_vars>>

\* Where the driver goes on after each call of check_integrity.
AfterCheck(at) ==
  CASE at = "check_integrity_1" -> "make_polygons_intersection_free"
    [] at = "check_integrity_2" -> "set_k_intersections"
    [] at = "run_check" -> "run"
    [] at = "window_check" -> "initialize_queue"
    [] at = "final_check" -> "returned_true"

CheckSites == {"check_integrity_1", "check_integrity_2", "run_check", "window_check", "final_check"}

\* A check that repairs what it finds: a failing call marks the meshes valid.
CheckIntegrityCall_Repairing(next) ==
  /\ IF IntegrityNow
     THEN integrity' = "true" /\ pc' = next /\ UNCHANGED <<failure, mesh_valid>>
     ELSE IF m_verbose
     THEN integrity' = "none" /\ Halt("ERROR: integrity") /\ UNCHANGED mesh_valid
     ELSE /\ integrity' = "false" /\ pc' = next /\ UNCHANGED failure
          /\ mesh_valid' = [i \in DOMAIN mesh_valid |-> TRUE]
  /\ checks' = checks + 1
  /\ trace' = NoTraceRecord
  /\ UNCHANGED <<m_verbose, distance_vars, graph_vars, args, time_step, nsp, g_iedges, sp_iedges, iplanes, k, face_sp, ring, pv,
                 current_time, driver_vars, windows, iterations, last_pop>>

\* A call of check_integrity (lines 417-460) and the caller's use of it: every
\* caller drops the returned value; a failure is an assertion only if
\* m_verbose is set.  The caller goes on at next.
CheckIntegrityCall(next) ==
  /\ IF IntegrityNow
     THEN integrity' = "true" /\ pc' = next /\ UNCHANGED failure
     ELSE IF m_verbose
     THEN integrity' = "none" /\ Halt("ERROR: integrity")
     ELSE integrity' = "false" /\ pc' = next /\ UNCHANGED failure
  /\ checks' = checks + 1
  /\ trace' = NoTraceRecord
  /\ UNCHANGED <<m_verbose, distance_vars, graph_vars, args, time_step, data_vars, driver_vars, windows, iterations, last_pop>>

\* The calls of lines 136, 138, 174, 196 and 764.
CheckIntegrity ==
  /\ pc \in CheckSites
  /\ CheckIntegrityCall(AfterCheck(pc))

\* Polygon_splitter::split_support_plane: the polygon of a plane crossed by a
\* transverse line can be cut in two; the second part is a new PFace of the
\* same plane.  Y is the set of planes whose polygon is cut.
CrossedPlanes(X) == { pq[1] : pq \in X } \cup { pq[2] : pq \in X }
SplitFace(K, Y, p) == Cardinality(DOMAIN K) + Cardinality({ q \in Y : q <= p })
SplitFaces(K, Y) == { SplitFace(K, Y, p) : p \in Y }
SplitFaceSp(K, Y) == [f \in SplitFaces(K, Y) |-> CHOOSE p \in Y : SplitFace(K, Y, p) = f]

\* make_polygons_intersection_free, lines 462-533: the transverse lines of
\* the pairs of input planes that meet inside the box become IEdges.
MakePolygonsIntersectionFree ==
  /\ pc = "make_polygons_intersection_free"
  /\ \E X \in SUBSET PlanePairs(args.n), fault \in Faults :
       /\ g_iedges' = CrossedIEdges(g_iedges, X)
       /\ sp_iedges' = FaultySpIEdges(CrossedSpIEdges(sp_iedges, X), fault)
       /\ iplanes' = FaultyIPlanes(CrossedIPlanes(iplanes, X), CrossedSpIEdges(sp_iedges, X), fault)
       /\ mesh_valid' = FaultyMeshValid(mesh_valid, fault)
  /\ pc' = "refine_polygons"
  /\ UNCHANGED <<m_verbose, distance_vars, graph_vars, args, time_step, nsp, k, face_sp, ring, pv, current_time,
                 driver_vars, windows, iterations, hist_vars>>

\* make_polygons_intersection_free, lines 535-540: the splitter runs once
\* per support plane; it can cut the polygon of every plane that a
\* transverse line crosses.
RefinePolygons ==
  /\ pc = "refine_polygons"
  /\ splits' = splits \o SplitOrder(nsp)
  /\ \E Y \in SUBSET CrossedPlanes({ pq \in PlanePairs(args.n) : CrossIEdge(pq[1], pq[2]) \in g_iedges }) :
       /\ k' = k @@ [f \in SplitFaces(k, Y) |-> 0]
       /\ face_sp' = face_sp @@ SplitFaceSp(k, Y)
       /\ ring' = ring @@ [f \in SplitFaces(k, Y) |-> << >>]
  /\ pc' = "check_integrity_2"
  /\ UNCHANGED <<m_verbose, distance_vars, ivertices, map_p2vv, todo, attempts, args, time_step, nsp, g_iedges,
                 sp_iedges, iplanes, mesh_valid, pv, current_time, driver_vars, windows, iterations,
                 hist_vars>>

\* set_k_intersections that leaves out the planes of the bounding box.
set_k_intersections_InputOnly(K, FS, kk) ==
  [f \in DOMAIN K |-> IF FS[f] < NumBboxFaces THEN K[f] ELSE kk]

\* set_k_intersections (lines 542-549): every PFace of every support plane.
set_k_intersections(K, FS, kk) ==
  [f \in DOMAIN K |-> kk]

\* The call of line 139.
SetKIntersections ==
  /\ pc = "set_k_intersections"
  /\ k' = set_k_intersections(k, face_sp, args.k)
  /\ pc' = "check_bbox"
  /\ UNCHANGED <<m_verbose, distance_vars, graph_vars, args, time_step, nsp, g_iedges, sp_iedges, iplanes, mesh_valid,
                 face_sp, ring, pv, current_time, driver_vars, windows, iterations, hist_vars>>

\* Lines 157-159: m_data.check_bbox(), then exit(EXIT_SUCCESS).
CheckBboxAndExit ==
  /\ pc = "check_bbox"
  /\ pc' = "exited"
  /\ UNCHANGED <<m_verbose, distance_vars, graph_vars, args, time_step, data_vars, driver_vars, windows, iterations, hist_vars>>

Next ==
  \/ PartitionCall
  \/ CreateBoundingBox
  \/ AddPolygons
  \/ CheckIntegrity
  \/ MakePolygonsIntersectionFree
  \/ RefinePolygons
  \/ SetKIntersections
  \/ CheckBboxAndExit

Spec == Init /\ [][Next]_vars

(***************************************************************************)
(* The propagation: lines 161-203 of partition, initialize_queue, run and  *)
(* apply.  In partition they stand behind the exit of line 159; SimSpec    *)
(* starts them in the state partition has built at that line, for one      *)
(* input polygon.                                                          *)
(***************************************************************************)
InitSim ==
  /\ pc = "propagation"
  /\ m_verbose \in BOOLEAN
  /\ NoIntersectionPass
  /\ \E kk \in 1..MaxK : args = [n |-> 1, k |-> kk, ratio |-> RatioUnit + 1, reorient |-> FALSE]
  /\ time_step \in 1..MaxTimeStep
  /\ nsp = NumBboxFaces + 1
  /\ g_iedges = AddedIEdges(1)
  /\ sp_iedges = AddedSpIEdges(1)
  /\ iplanes = AddedIPlanes(1)
  /\ mesh_valid = [i \in Planes(1) |-> TRUE]
  /\ k = [f \in AddedFaces(1) |-> args.k]
  /\ face_sp = AddedFaceSp(1)
  /\ ring = AddedRing(1)
  /\ pv = AddedPV(1)
  /\ current_time = 0
  /\ m_queue = EmptyBag
  /\ m_min_time = NoTime
  /\ m_max_time = NoTime
  /\ windows = 0
  /\ iterations = 0
  /\ integrity = "true"
  /\ checks = 2
  /\ last_pop = NoTime
  /\ trace = NoTraceRecord
  /\ failure = ""
  /\ splits = SplitOrder(nsp)

\* KSR_3::Event: the three constructors used by compute_events_of_vertex.
Event(kind, pvertex, pother, iedge, ivertex, time) ==
  [kind |-> kind, pvertex |-> pvertex, pother |-> pother, iedge |-> iedge,
   ivertex |-> ivertex, time |-> time]

\* Position of x in the sequence s, 0 if absent.
IndexOf(s, x) == IF \E i \in 1..Len(s) : s[i] = x THEN CHOOSE i \in 1..Len(s) : s[i] = x ELSE 0

\* m_data.prev / m_data.next / prev_and_next / border_prev_and_next: the
\* neighbours of v on the boundary of its face.
PrevOf(R, P, v) ==
  LET r == R[P[v].face]  i == IndexOf(r, v)
  IN  IF i = 0 \/ Len(r) < 2 THEN null_pvertex ELSE r[IF i = 1 THEN Len(r) ELSE i - 1]
NextOf(R, P, v) ==
  LET r == R[P[v].face]  i == IndexOf(r, v)
  IN  IF i = 0 \/ Len(r) < 2 THEN null_pvertex ELSE r[IF i = Len(r) THEN 1 ELSE i + 1]

has_iedge(P, v) == P[v].iedge # null_iedge

\* m_data.iedge(pvertex), null_iedge for the null vertex.
IEdgeOf(P, v) == IF v = null_pvertex THEN null_iedge ELSE P[v].iedge

\* The subsets of S with at most m elements.
RECURSIVE SubsetsUpTo(_, _)
SubsetsUpTo(S, m) ==
  IF m <= 0 THEN {{}}
  ELSE LET T == SubsetsUpTo(S, m - 1) IN T \cup { t \cup {x} : <<t, x>> \in T \X S }

\* The geometry of the model: inside the convex section of its plane with the
\* box, the motion ray of a free vertex meets one side of the section; for
\* vertex number v it is side v mod 4.
Heading(P, v) == InputSideIEdge(P[v].sp, v % 4)

\* An event that carries the travel time alone.
PushTime_Relative(mmin, time) == time

\* Lines 645, 665 and 698: time is dist / speed, the travel time from the
\* position at m_min_time; the event carries m_min_time + time.
PushTime(mmin, time) == mmin + time

\* No IEdge left out of the scan of a free vertex.
NeighbourIEdges_None(R, P, v) == {}

\* Lines 683-685: the IEdges of prev and of next, which the scan of a free
\* vertex leaves out.
NeighbourIEdges(R, P, v) == {IEdgeOf(P, PrevOf(R, P, v)), IEdgeOf(P, NextOf(R, P, v))}

\* Travel times to an IVertex taken without the test against the window.
IVertexTimes_Untested(lo, hi) == 0..(hi - lo + 1)

\* Lines 658-664: the vertex moves towards the IVertex (time >= 0) and
\* time < m_max_time - m_min_time.
IVertexTimes(lo, hi) == 0..(hi - lo - 1)

\* compute_events_of_vertex (lines 599-705): the events the geometry can make
\* it push for v in the window [lo, hi].  search is the IEdge list handed in
\* by the caller.
CandidateEvents(R, P, v, search, lo, hi) ==
  IF P[v].frozen THEN {}
  ELSE IF has_iedge(P, v)
  THEN { Event("pvertex_to_pvertex", v, ot[1], null_iedge, null_ivertex, PushTime(lo, ot[2])) :
           ot \in { x \in ({PrevOf(R, P, v), NextOf(R, P, v)} \ {null_pvertex}) \X (0..(hi - lo)) :
                      P[x[1]].active /\ ~has_iedge(P, x[1]) } }
       \cup
       { Event("pvertex_to_ivertex", v, null_pvertex, null_iedge, it[1], PushTime(lo, it[2])) :
           it \in P[v].iedge \X IVertexTimes(lo, hi) }
  ELSE { Event("pvertex_to_iedge", v, null_pvertex, et[1], null_ivertex, PushTime(lo, et[2])) :
           et \in ((search \cap {Heading(P, v)})
                     \ NeighbourIEdges(R, P, v)) \X (0..(hi - lo)) }

\* compute_events_of_vertex returns false for a frozen vertex only.
ComputeReturns(P, v) == ~P[v].frozen

\* What identifies the target of an event; one call pushes at most one event
\* per target.
TargetOf(ev) == <<ev.kind, ev.pvertex, ev.pother, ev.iedge, ev.ivertex>>

\* init_search_structures (lines 576-597): the IEdges of support plane i.
SearchList(spi, i) == spi[i]

\* The sets of events compute_events_of_vertex can push for the vertices vs
\* on a queue with room for room more events.  initialize_queue builds the
\* search list of each vertex's own plane (first = null_pvertex);
\* compute_events_of_vertices builds it once, for the plane of the first
\* vertex of the batch.
Pushes(R, P, spi, vs, first, lo, hi, room) ==
  LET cands == UNION { CandidateEvents(R, P, v,
                         SearchList(spi, IF first = null_pvertex THEN P[v].sp ELSE P[first].sp),
                         lo, hi) : v \in vs }
  IN  { S \in SubsetsUpTo(cands, room) : \A a, b \in S : TargetOf(a) = TargetOf(b) => a = b }

QueueSize(q) == BagCardinality(q)

\* Lines 165-168.
StartPropagation ==
  /\ pc = "propagation"
  /\ m_min_time' = 0
  /\ m_max_time' = time_step
  /\ windows' = 0
  /\ pc' = "initialize_queue"
  /\ UNCHANGED <<m_verbose, distance_vars, graph_vars, args, time_step, data_vars, m_queue, iterations, hist_vars>>

\* initialize_queue (lines 551-574) and the test of partition's while loop;
\* on true, run starts with its local counter at 0.
InitializeQueue ==
  /\ pc = "initialize_queue"
  /\ windows < MaxWindows \/ \A v \in DOMAIN pv : pv[v].frozen
  /\ \E S \in Pushes(ring, pv, sp_iedges, DOMAIN pv, null_pvertex, m_min_time, m_max_time,
                     MaxQueue - QueueSize(m_queue)) :
       m_queue' = m_queue (+) SetToBag(S)
  /\ current_time' = m_min_time
  /\ IF \E v \in DOMAIN pv : ComputeReturns(pv, v)
     THEN pc' = "run" /\ iterations' = 0 /\ last_pop' = NoTime
     ELSE pc' = "final_check" /\ UNCHANGED <<iterations, last_pop>>
  /\ UNCHANGED <<m_verbose, distance_vars, graph_vars, args, time_step, nsp, g_iedges, sp_iedges, iplanes, mesh_valid, k,
                 face_sp, ring, pv, m_min_time, m_max_time, windows, integrity, checks, trace, failure>>

\* The events with the smallest time: Event_queue::pop returns one of them.
Earliest(q) == { ev \in BagToSet(q) : \A o \in BagToSet(q) : ev.time <= o.time }

\* Event_queue::erase_vertex_events(pvertex): every event that refers to v.
ErasePVertex(q, v) ==
  LET keep == { ev \in BagToSet(q) : ev.pvertex # v /\ ev.pother # v }
  IN  [ev \in keep |-> q[ev]]

\* Event_queue::erase_vertex_events(iedge, support_plane_idx): every event to
\* that IEdge of a vertex of that plane.
EraseIEdge(q, P, e, sp) ==
  LET keep == { ev \in BagToSet(q) : ~(ev.iedge = e /\ P[ev.pvertex].sp = sp) }
  IN  [ev \in keep |-> q[ev]]

\* A removal by vertex that leaves the queue as it is.
remove_events_Nothing(q, v) == q

\* remove_events(pvertex) (lines 1006-1009).
remove_events(q, v) == ErasePVertex(q, v)

\* A removal by IEdge that leaves the queue as it is.
remove_events_iedge_Nothing(q, P, e, sp) == q

\* remove_events(iedge, support_plane_idx) (lines 997-1004).
remove_events_iedge(q, P, e, sp) == EraseIEdge(q, P, e, sp)

\* run that returns after its first event, whatever is left in the queue.
RunReturns_AfterOne ==
  /\ pc = "run"
  /\ iterations >= 1
  /\ m_min_time' = m_max_time
  /\ m_max_time' = m_max_time + time_step
  /\ windows' = windows + 1
  /\ pc' = "window_check"
  /\ UNCHANGED <<m_verbose, distance_vars, graph_vars, args, time_step, data_vars, m_queue, iterations, hist_vars>>

\* partition that leaves m_min_time as run left it.
ResetMinTime_Kept(mmin, mmax) == mmin

\* line 172: m_min_time = m_max_time.
ResetMinTime(mmin, mmax) == mmax

\* run (lines 728-771) finds the queue empty and returns; partition then
\* advances the window (lines 172-175).
RunReturns ==
  /\ pc = "run"
  /\ m_queue = EmptyBag
  /\ m_min_time' = ResetMinTime(m_min_time, m_max_time)
  /\ m_max_time' = m_max_time + time_step
  /\ windows' = windows + 1
  /\ pc' = "window_check"
  /\ UNCHANGED <<m_verbose, distance_vars, graph_vars, args, time_step, data_vars, m_queue, iterations, hist_vars>>

(***************************************************************************)
(* The mutators of Data_structure used by apply.                           *)
(***************************************************************************)
Range(s) == { s[i] : i \in 1..Len(s) }
NewPVertex(P, i) == Cardinality(DOMAIN P) + i
NewPFace(K) == Cardinality(DOMAIN K) + 1
PVertexRecord(sp, face, iedge) ==
  [sp |-> sp, face |-> face, iedge |-> iedge, frozen |-> FALSE, active |-> TRUE]

\* The sequence s with x inserted after position i.
InsertAfter(s, i, x) == SubSeq(s, 1, i) \o <<x>> \o SubSeq(s, i + 1, Len(s))
\* The sequence s without the elements of the set X.
Without(s, X) == SelectSeq(s, LAMBDA x : x \notin X)

\* crop_polygon(pvertex, iedge): pvertex is put on the IEdge and a second
\* vertex on the same IEdge is added next to it; returns the new vertex.
CropSingle(R, P, v, e) ==
  LET nv == NewPVertex(P, 1)
      f == P[v].face
  IN  [R |-> [R EXCEPT ![f] = InsertAfter(@, IndexOf(@, v), nv)],
       P |-> [P EXCEPT ![v].iedge = e] @@ (nv :> PVertexRecord(P[v].sp, f, e)),
       new |-> <<nv>>]

\* crop_polygon(pvertex, pother, iedge): both vertices are put on the IEdge.
CropPair(R, P, v, o, e) ==
  [R |-> R, P |-> [P EXCEPT ![v].iedge = e, ![o].iedge = e], new |-> << >>]

\* propagate_polygon(k, pvertex, iedge): as crop_polygon, plus a free vertex
\* beyond the IEdge; the three vertices bound a new PFace that is given k.
PropagateSingle(R, P, K, FS, kk, v, e) ==
  LET c == CropSingle(R, P, v, e)
      nv == c.new[1]
      nfree == NewPVertex(P, 2)
      nf == NewPFace(K)
  IN  [R |-> c.R @@ (nf :> <<v, nv, nfree>>),
       P |-> c.P @@ (nfree :> PVertexRecord(P[v].sp, nf, null_iedge)),
       K |-> K @@ (nf :> kk),
       FS |-> FS @@ (nf :> P[v].sp),
       new |-> <<v, nv, nfree>>]

\* propagate_polygon(k, pvertex, pother, iedge): both vertices are put on the
\* IEdge and two free vertices beyond it are returned; the four bound a new
\* PFace that is given k.
PropagatePair(R, P, K, FS, kk, v, o, e) ==
  LET c == CropPair(R, P, v, o, e)
      pv0 == NewPVertex(P, 1)
      pv1 == NewPVertex(P, 2)
      nf == NewPFace(K)
  IN  [R |-> c.R @@ (nf :> <<v, o, pv1, pv0>>),
       P |-> c.P @@ (pv0 :> PVertexRecord(P[v].sp, nf, null_iedge))
                 @@ (pv1 :> PVertexRecord(P[v].sp, nf, null_iedge)),
       K |-> K @@ (nf :> kk),
       FS |-> FS @@ (nf :> P[v].sp),
       new |-> <<pv0, pv1>>]

\* compute_events_of_vertices that keeps the start of the window.
WindowStart_Kept(mmin, cur) == mmin

\* compute_events_of_vertices sets m_min_time to the current time (line 1015).
WindowStart(mmin, cur) == cur

\* compute_events_of_vertices that deactivates nothing.
Deactivated_None(P, B) == P

\* lines 1023-1024: m_data.deactivate(pvertex) for every vertex of the batch.
Deactivated(P, B) ==
  [v \in DOMAIN P |-> IF v \in B THEN [P[v] EXCEPT !.active = FALSE] ELSE P[v]]

\* compute_events_of_vertices (lines 1011-1035): the batch is deactivated,
\* events are computed for each of its vertices with the search list of the
\* first one, the batch is activated.  The set of possible results.
ComputeBatch(q, R, P, spi, batch, lo, hi) ==
  LET B == Range(batch)
      Pd == Deactivated(P, B)
      Pa == [v \in DOMAIN P |-> IF v \in B THEN [P[v] EXCEPT !.active = TRUE] ELSE P[v]]
  IN  { [q |-> q (+) SetToBag(S), P |-> Pa] :
          S \in Pushes(R, Pd, spi, B, batch[1], lo, hi,
                       IF MaxQueue - QueueSize(q) < MaxPush THEN MaxQueue - QueueSize(q) ELSE MaxPush) }

(***************************************************************************)
(* apply (lines 773-995), one action per kind of event.  Each action is    *)
(* one iteration of run's loop up to the call of check_integrity: the pop, *)
(* update_positions(ev.time()) and apply.                                  *)
(***************************************************************************)
\* What every iteration of run does besides apply.
Popped(ev) ==
  /\ current_time' = ev.time
  /\ last_pop' = ev.time
  /\ iterations' = iterations + 1
  /\ UNCHANGED <<integrity, checks>>
  /\ UNCHANGED <<m_verbose, distance_vars, graph_vars, args, time_step, nsp, g_iedges, sp_iedges, iplanes, m_max_time, windows>>

\* apply has returned: run goes on to check_integrity.
Applied(q, R, P, K, FS, fault, tr, mmin) ==
  /\ m_queue' = q
  /\ ring' = R
  /\ pv' = P
  /\ k' = K
  /\ face_sp' = FS
  /\ mesh_valid' = FaultyMeshValid(mesh_valid, fault)
  /\ trace' = tr
  /\ m_min_time' = mmin
  /\ pc' = "run_check"
  /\ failure' = failure

\* An assertion failed inside apply.
Asserted(q, R, P, K, FS, tr, mmin, msg) ==
  /\ m_queue' = q
  /\ ring' = R
  /\ pv' = P
  /\ k' = K
  /\ face_sp' = FS
  /\ mesh_valid' = mesh_valid
  /\ trace' = tr
  /\ m_min_time' = mmin
  /\ Halt(msg)

ApplyFaults == {"none", "mesh"}

\* The single-vertex policy that spends budget on every collision.
SinglePolicy_AlwaysSpend(c, b, kf) ==
  IF b THEN "stop"
  ELSE IF c THEN "decrement"
  ELSE "continue"

\* The single-vertex policy without the stop at k == 1.
SinglePolicy_NoStopAtOne(c, b, kf) ==
  IF b THEN "stop"
  ELSE IF c /\ kf > 1 THEN "decrement"
  ELSE "continue"

\* The policy of lines 925-943 for one vertex: collision and bbox_reached are
\* the answers of collision_occured, kf is m_data.k(pface).
SinglePolicy(c, b, kf) ==
  IF b THEN "stop"
  ELSE IF c /\ kf = 1 THEN "stop"
  ELSE IF c /\ kf > 1 THEN "decrement"
  ELSE "continue"

\* The two-vertex policy that looks at the collision of the event vertex only.
JointPolicy_OwnCollision(c, b, c2, b2, kf) ==
  IF b THEN (IF b2 THEN "stop" ELSE "assert")
  ELSE IF b2 THEN "assert"
  ELSE IF c /\ kf = 1 THEN "stop"
  ELSE IF c /\ kf > 1 THEN "decrement"
  ELSE "continue"

\* The policy of lines 863-893 for two vertices.
\* The pair policy with the two assertions of lines 866 and 872 left out.
JointPolicy_Unasserted(c, b, c2, b2, kf) ==
  IF b \/ b2 THEN "stop"
  ELSE IF (c \/ c2) /\ kf = 1 THEN "stop"
  ELSE IF (c \/ c2) /\ kf > 1 THEN "decrement"
  ELSE "continue"

JointPolicy(c, b, c2, b2, kf) ==
  IF b THEN (IF b2 THEN "stop" ELSE "assert")
  ELSE IF b2 THEN "assert"
  ELSE IF (c \/ c2) /\ kf = 1 THEN "stop"
  ELSE IF (c \/ c2) /\ kf > 1 THEN "decrement"
  ELSE "continue"

\* m_data.k(pface)-- .
Decrement(K, f) == [K EXCEPT ![f] = @ - 1]

\* Lines 915-958: the event vertex crosses the IEdge alone.
ApplySingle(ev, par) ==
  LET v == ev.pvertex
      e == ev.iedge
      f == pv[v].face
      q1 == ErasePVertex(m_queue (-) SetToBag({ev}), v)
  IN  \E c \in BOOLEAN, b \in BOOLEAN :
        LET policy == SinglePolicy(c, b, k[f])
            K1 == IF policy = "decrement" THEN Decrement(k, f) ELSE k
            tr(ops, batches) == [Trace("single", ops, batches, f, k[f], c, b, FALSE, FALSE, null_pvertex)
                                  EXCEPT !.parallel = par]
        IN  IF ~(K1[f] >= 1)
            THEN Asserted(q1, ring, pv, K1, face_sp,
                          tr(<<"remove_events(pvertex)">>, << >>), m_min_time, "k(pface) >= 1")
            ELSE IF policy = "stop"
            THEN /\ NewPVertex(pv, 1) <= MaxPVertices
                 /\ LET d == CropSingle(ring, pv, v, e)
                        q2 == remove_events_iedge(q1, d.P, e, pv[v].sp)
                        batch == <<v, d.new[1]>>
                        lo == WindowStart(m_min_time, ev.time)
                    IN  \E r \in ComputeBatch(q2, d.R, d.P, sp_iedges, batch, lo, m_max_time),
                           fault \in ApplyFaults :
                          Applied(r.q, d.R, r.P, K1, face_sp, fault,
                                  tr(<<"remove_events(pvertex)", "crop_polygon", "remove_events(iedge)",
                                       "compute_events_of_vertices">>, <<batch>>), lo)
            ELSE /\ NewPVertex(pv, 2) <= MaxPVertices
                 /\ LET d == PropagateSingle(ring, pv, K1, face_sp, K1[f], v, e)
                        q2 == remove_events_iedge(q1, d.P, e, pv[v].sp)
                        batch == d.new
                        lo == WindowStart(m_min_time, ev.time)
                    IN  \E r \in ComputeBatch(q2, d.R, d.P, sp_iedges, batch, lo, m_max_time),
                           fault \in ApplyFaults :
                          Applied(r.q, d.R, r.P, d.K, d.FS, fault,
                                  tr(<<"remove_events(pvertex)", "propagate_polygon", "remove_events(iedge)",
                                       "compute_events_of_vertices">>, <<batch>>), lo)

\* Lines 847-912: the event vertex and its neighbour pother cross together.
ApplyPair(ev, pother, par) ==
  LET v == ev.pvertex
      e == ev.iedge
      f == pv[v].face
      q1 == ErasePVertex(ErasePVertex(m_queue (-) SetToBag({ev}), v), pother)
      removed == <<"remove_events(pvertex)", "remove_events(pvertex)">>
  IN  \E c \in BOOLEAN, b \in BOOLEAN, c2 \in BOOLEAN, b2 \in BOOLEAN :
      \E occupied \in (IF JointPolicy(c, b, c2, b2, k[f]) = "continue" THEN BOOLEAN ELSE {FALSE}) :
        LET policy == JointPolicy(c, b, c2, b2, k[f])
            K1 == IF policy = "decrement" THEN Decrement(k, f) ELSE k
            tr(ops, batches) == [Trace("pair", ops, batches, f, k[f], c, b, c2, b2, pother)
                                  EXCEPT !.parallel = par]
        IN  IF policy = "assert"
            THEN Asserted(q1, ring, pv, k, face_sp, tr(removed, << >>), m_min_time,
                          "bbox_reached / bbox_reached_other")
            ELSE IF policy = "continue" /\ pv[v].iedge # pv[pother].iedge
            THEN Asserted(q1, ring, pv, k, face_sp, tr(removed, << >>), m_min_time,
                          "iedge(pvertex) == iedge(pother)")
            ELSE IF policy = "continue" /\ occupied
            THEN Asserted(q1, ring, pv, k, face_sp, tr(removed, << >>), m_min_time,
                          "TODO: TWO PVERTICES SNEAK ON THE OTHER SIDE EVEN WHEN WE HAVE A POLYGON!")
            ELSE IF ~(K1[f] >= 1)
            THEN Asserted(q1, ring, pv, K1, face_sp, tr(removed, << >>), m_min_time, "k(pface) >= 1")
            ELSE IF policy = "stop"
            THEN LET d == CropPair(ring, pv, v, pother, e)
                     q2 == remove_events_iedge(q1, d.P, e, pv[v].sp)
                     batch == <<v, pother>>
                     lo == WindowStart(m_min_time, ev.time)
                 IN  \E r \in ComputeBatch(q2, d.R, d.P, sp_iedges, batch, lo, m_max_time),
                        fault \in ApplyFaults :
                       Applied(r.q, d.R, r.P, K1, face_sp, fault,
                               tr(removed \o <<"crop_polygon", "remove_events(iedge)",
                                               "compute_events_of_vertices">>, <<batch>>), lo)
            ELSE /\ NewPVertex(pv, 2) <= MaxPVertices
                 /\ LET d == PropagatePair(ring, pv, K1, face_sp, K1[f], v, pother, e)
                        q2 == remove_events_iedge(q1, d.P, e, pv[v].sp)
                        batch == <<v, pother>> \o d.new
                        lo == WindowStart(m_min_time, ev.time)
                    IN  \E r \in ComputeBatch(q2, d.R, d.P, sp_iedges, batch, lo, m_max_time),
                           fault \in ApplyFaults :
                          Applied(r.q, d.R, r.P, d.K, d.FS, fault,
                                  tr(removed \o <<"propagate_polygon", "remove_events(iedge)",
                                                  "compute_events_of_vertices">>, <<batch>>), lo)

Abs(x) == IF x < 0 THEN -x ELSE x

\* are_parallel (lines 707-726) on segments with integer coordinates: tol is
\* 1 / TolInv; a slope is a pair <<numerator, denominator>>, BigSlope when the
\* segment is vertical within tol; |m1 - m2| < tol is
\* TolInv * |n1 * q2 - n2 * q1| < |q1 * q2|, computed without the product by
\* TolInv.
TolInv == 100000
BigSlope == 100000
Segment(sx, sy, tx, ty) == [source |-> <<sx, sy>>, target |-> <<tx, ty>>]
are_parallel(seg1, seg2) ==
  LET d1 == seg1.target[1] - seg1.source[1]
      d2 == seg2.target[1] - seg2.source[1]
      m1 == IF Abs(d1) * TolInv > 1 THEN <<seg1.target[2] - seg1.source[2], d1>> ELSE <<BigSlope, 1>>
      m2 == IF Abs(d2) * TolInv > 1 THEN <<seg2.target[2] - seg2.source[2], d2>> ELSE <<BigSlope, 1>>
  IN  Abs(m1[1] * m2[2] - m2[1] * m1[2]) <= (Abs(m1[2] * m2[2]) - 1) \div TolInv

\* The segments of the model, none of length 0 (line 838): horizontal,
\* diagonal, vertical, and of slope BigSlope.
EdgeSegments ==
  { Segment(0, 0, 1, 0), Segment(0, 0, 1, 1), Segment(0, 0, 0, 1), Segment(0, 0, 1, BigSlope) }

\* Lines 831-847: what are_parallel answers for the edge from prev and for the
\* edge from next against the target IEdge.
ParallelAnswers ==
  { <<are_parallel(s1, se), are_parallel(s2, se)>> : <<s1, s2, se>> \in EdgeSegments \X EdgeSegments \X EdgeSegments }

\* The partner chosen with next tested before prev.
Partner_NextFirst(R, P, v, par_prev, par_next) ==
  LET prev == PrevOf(R, P, v)
      next == NextOf(R, P, v)
      both_are_free(o) == P[v].iedge = null_iedge /\ IEdgeOf(P, o) = null_iedge
  IN  IF both_are_free(next) /\ par_next THEN next
      ELSE IF both_are_free(prev) /\ par_prev THEN prev
      ELSE null_pvertex

\* Lines 834-847: the neighbour the event vertex crosses with, prev tested
\* before next; par_prev and par_next are the answers of are_parallel.
Partner(R, P, v, par_prev, par_next) ==
  LET prev == PrevOf(R, P, v)
      next == NextOf(R, P, v)
      both_are_free(o) == P[v].iedge = null_iedge /\ IEdgeOf(P, o) = null_iedge
  IN  IF both_are_free(prev) /\ par_prev THEN prev
      ELSE IF both_are_free(next) /\ par_next THEN next
      ELSE null_pvertex

\* apply, branch ev.is_pvertex_to_iedge() (lines 824-959).
ApplyPVertexToIEdge ==
  /\ pc = "run"
  /\ iterations < MaxIter
  /\ \E ev \in Earliest(m_queue) :
       /\ ev.kind = "pvertex_to_iedge"
       /\ Popped(ev)
       /\ \E par \in ParallelAnswers :
            LET pother == Partner(ring, pv, ev.pvertex, par[1], par[2])
            IN  IF pother = null_pvertex THEN ApplySingle(ev, par) ELSE ApplyPair(ev, pother, par)

\* transfer_vertex(pvertex, pother): on success the IEdge of pvertex is given
\* to pother, and pvertex keeps it ("shared") or is released ("moved"); on
\* failure nothing changes.
TransferOutcomes == {"failed", "moved", "shared"}
TransferVertex(P, v, o, outcome) ==
  CASE outcome = "failed" -> P
    [] outcome = "moved" -> [P EXCEPT ![o].iedge = P[v].iedge, ![v].iedge = null_iedge]
    [] outcome = "shared" -> [P EXCEPT ![o].iedge = P[v].iedge]

\* remove_events(m_data.iedge(x), x.first) under the test has_iedge(x).
EraseIfConstrained(q, P, x) ==
  IF has_iedge(P, x) THEN EraseIEdge(q, P, P[x].iedge, P[x].sp) ELSE q
NoteIfConstrained(P, x) ==
  IF has_iedge(P, x) THEN <<"remove_events(iedge)">> ELSE << >>

\* The case of two constrained vertices taken for one the code handles.
TwoConstrainedMeet_Handled(P, o) == FALSE

\* Line 788: pother has an IEdge too, two constrained vertices meet.
TwoConstrainedMeet(P, o) == has_iedge(P, o)

\* apply, branch ev.is_pvertex_to_pvertex() (lines 779-823).
ApplyPVertexToPVertex ==
  /\ pc = "run"
  /\ iterations < MaxIter
  /\ \E ev \in Earliest(m_queue) :
       /\ ev.kind = "pvertex_to_pvertex"
       /\ Popped(ev)
       /\ LET v == ev.pvertex
              o == ev.pother
              q1 == remove_events(remove_events(m_queue (-) SetToBag({ev}), v), o)
              removed == <<"remove_events(pvertex)", "remove_events(pvertex)">>
              tr(ops, batches) == Trace("pvertex_to_pvertex", ops, batches, pv[v].face,
                                        k[pv[v].face], FALSE, FALSE, FALSE, FALSE, o)
              lo == WindowStart(m_min_time, ev.time)
          IN  IF ~has_iedge(pv, v)
              THEN Asserted(q1, ring, pv, k, face_sp, tr(removed, << >>), m_min_time,
                            "m_data.has_iedge(pvertex)")
              ELSE IF TwoConstrainedMeet(pv, o)
              THEN Asserted(q1, ring, pv, k, face_sp, tr(removed, << >>), m_min_time,
                            "TODO: ADD CASE TWO CONSTRAINED PVERTICES MEET!")
              ELSE \E outcome \in TransferOutcomes, fault \in ApplyFaults :
                     LET P1 == TransferVertex(pv, v, o, outcome)
                         q2 == EraseIfConstrained(q1, P1, v)
                         ops2 == removed \o <<"transfer_vertex">> \o NoteIfConstrained(P1, v)
                     IN  IF outcome = "failed"
                         THEN \E r \in ComputeBatch(q2, ring, P1, sp_iedges, <<v>>, lo, m_max_time) :
                                Applied(r.q, ring, r.P, k, face_sp, fault,
                                        tr(ops2 \o <<"compute_events_of_vertices">>, << <<v>> >>), lo)
                         ELSE LET q3 == EraseIfConstrained(q2, P1, o)
                                  ops3 == ops2 \o NoteIfConstrained(P1, o) \o <<"compute_events_of_vertices">>
                                  prev == PrevOf(ring, P1, v)
                                  next == NextOf(ring, P1, v)
                                  pthird == IF prev = o THEN next ELSE prev
                              IN  \E r \in ComputeBatch(q3, ring, P1, sp_iedges, <<v, o>>, lo, m_max_time) :
                                    IF (prev # o /\ next # o) \/ pthird = null_pvertex
                                    THEN Asserted(r.q, ring, r.P, k, face_sp, tr(ops3, << <<v, o>> >>), lo,
                                                  "next == pother")
                                    ELSE LET q4 == EraseIfConstrained(r.q, r.P, pthird)
                                             ops4 == ops3 \o NoteIfConstrained(r.P, pthird)
                                                          \o <<"compute_events_of_vertices">>
                                         IN  \E r2 \in ComputeBatch(q4, ring, r.P, sp_iedges, <<pthird>>, lo, m_max_time) :
                                               Applied(r2.q, ring, r2.P, k, face_sp, fault,
                                                       tr(ops4, << <<v, o>>, <<pthird>> >>), lo)

\* pvertices_around_ivertex(pvertex, ivertex): the vertices that meet at the
\* IVertex, in boundary order: the event vertex with or without its two
\* neighbours.
Stars(R, P, v) ==
  LET prev == PrevOf(R, P, v)
      next == NextOf(R, P, v)
      L == IF prev = null_pvertex THEN {<< >>} ELSE {<< >>, <<prev>>}
      N == IF next = null_pvertex \/ next = prev THEN {<< >>} ELSE {<< >>, <<next>>}
  IN  { ln[1] \o <<v>> \o ln[2] : ln \in L \X N }

\* The vertices of other support planes that arrive at the IVertex with the
\* event vertex: constrained, moving, on an IEdge that ends there.
Foreign(P, v, iv) ==
  { w \in DOMAIN P : P[w].sp # P[v].sp /\ ~P[w].frozen /\ iv \in P[w].iedge }

\* pvertices_around_ivertex(pvertex, ivertex): the star in the plane of the
\* event vertex, alone or followed by a vertex of another plane.
StarsAt(R, P, v, iv) ==
  Stars(R, P, v) \cup { s \o <<w>> : <<s, w>> \in Stars(R, P, v) \X Foreign(P, v, iv) }

\* The loop of the commented lines 973-974: every vertex of the star.
Interior_All(star) == Range(star)

\* The vertices at positions 1 .. size() - 2 of the star (line 975).
Interior(star) == { star[i] : i \in 2..(Len(star) - 1) }

RECURSIVE EraseAll(_, _)
EraseAll(q, V) ==
  IF V = {} THEN q
  ELSE LET x == CHOOSE x \in V : TRUE IN EraseAll(ErasePVertex(q, x), V \ {x})

\* merge_pvertices_on_ivertex: the event vertex is frozen at the IVertex
\* ("frozen"), or goes on along another IEdge of its plane that starts there
\* ("turned"), alone or with a new vertex beside it ("split"); "none" is a
\* merge that returns no vertex.  Returns the vertices and the crossed IEdges.
MergeOutcomes == {"none", "frozen", "turned", "split"}
OtherIEdges(spi, P, v, iv) == { e \in spi[P[v].sp] : iv \in e /\ e # P[v].iedge }
Merge(R, P, v, e2, outcome) ==
  CASE outcome = "none" -> [R |-> R, P |-> P, new |-> << >>, crossed |-> {}]
    [] outcome = "frozen" ->
         [R |-> R, P |-> [P EXCEPT ![v].frozen = TRUE], new |-> <<v>>, crossed |-> {}]
    [] outcome = "turned" ->
         [R |-> R, P |-> [P EXCEPT ![v].iedge = e2], new |-> <<v>>, crossed |-> {e2}]
    [] outcome = "split" ->
         LET nv == NewPVertex(P, 1)
             f == P[v].face
         IN  [R |-> [R EXCEPT ![f] = InsertAfter(@, IndexOf(@, v), nv)],
              P |-> [P EXCEPT ![v].iedge = e2] @@ (nv :> PVertexRecord(P[v].sp, f, null_iedge)),
              new |-> <<v, nv>>, crossed |-> {e2}]

\* What merge_pvertices_on_ivertex returns for a star: the vertices it made
\* in the plane of the event vertex, alone or followed by the vertices of
\* the star that lie in other planes.
MergeReturns(P, v, star, new) ==
  IF new = << >> THEN {new}
  ELSE {new, new \o SelectSeq(star, LAMBDA w : P[w].sp # P[v].sp)}

RECURSIVE EraseIEdges(_, _, _, _)
EraseIEdges(q, P, E, sp) ==
  IF E = {} THEN q
  ELSE LET e == CHOOSE e \in E : TRUE IN EraseIEdges(EraseIEdge(q, P, e, sp), P, E \ {e}, sp)

\* The merge taken to have returned a vertex whatever it returned.
MergeReturnedSome_Unchecked(new) == TRUE

\* Line 988: CGAL_assertion(new_pvertices.size() > 0).
MergeReturnedSome(new) == Len(new) > 0

\* apply, branch ev.is_pvertex_to_ivertex() (lines 960-990).
ApplyPVertexToIVertex ==
  /\ pc = "run"
  /\ iterations < MaxIter
  /\ \E ev \in Earliest(m_queue) :
       /\ ev.kind = "pvertex_to_ivertex"
       /\ Popped(ev)
       /\ \E star \in StarsAt(ring, pv, ev.pvertex, ev.ivertex), outcome \in MergeOutcomes,
               fault \in ApplyFaults :
            LET v == ev.pvertex
                q1 == EraseAll(m_queue (-) SetToBag({ev}), Interior(star))
                removed == [i \in 1..Cardinality(Interior(star)) |-> "remove_events(pvertex)"]
                others == OtherIEdges(sp_iedges, pv, v, ev.ivertex)
                tr0(ops, batches) == Trace("pvertex_to_ivertex", ops, batches, pv[v].face,
                                           k[pv[v].face], FALSE, FALSE, FALSE, FALSE, null_pvertex)
                lo == WindowStart(m_min_time, ev.time)
            IN  /\ outcome \in {"turned", "split"} => others # {}
                /\ outcome = "split" => NewPVertex(pv, 1) <= MaxPVertices
                /\ \E e2 \in (IF outcome \in {"turned", "split"} THEN others ELSE {null_iedge}) :
                     LET d == Merge(ring, pv, v, e2, outcome)
                         tr(ops, batches) == [tr0(ops, batches) EXCEPT !.star = star, !.crossed = d.crossed]
                         q2 == EraseIEdges(q1, d.P, d.crossed, pv[v].sp)
                         ops2 == removed \o <<"merge_pvertices_on_ivertex">>
                                         \o [i \in 1..Cardinality(d.crossed) |-> "remove_events(iedge)"]
                     IN  IF ~MergeReturnedSome(d.new)
                         THEN Asserted(q2, d.R, d.P, k, face_sp, tr(ops2, << >>), m_min_time,
                                       "new_pvertices.size() > 0")
                         ELSE \E new \in MergeReturns(pv, v, star, d.new) :
                              \E r \in ComputeBatch(q2, d.R, d.P, sp_iedges, new, lo, m_max_time) :
                                Applied(r.q, d.R, r.P, k, face_sp, fault,
                                        tr(ops2 \o <<"compute_events_of_vertices">>, <<new>>), lo)

NextSim ==
  \/ StartPropagation
  \/ InitializeQueue
  \/ ApplyPVertexToPVertex
  \/ ApplyPVertexToIEdge
  \/ ApplyPVertexToIVertex
  \/ CheckIntegrity
  \/ RunReturns

SimSpec == InitSim /\ [][NextSim]_vars

(***************************************************************************)
(* The end of the propagation: partition's while loop (lines 169-187)      *)
(* taken up at its test after the first window, when run has returned and  *)
(* the vertices of the input polygon are free, constrained to the IEdge    *)
(* they head for, or frozen on it, at most MaxLive of them not frozen.     *)
(***************************************************************************)
MaxLive == 2

PVertexStatesUpTo(live) ==
  { P \in [DOMAIN AddedPV(1) -> [sp : {InputPlane(0)}, face : {InputFace(0)},
                                 iedge : {null_iedge} \cup InputPlaneIEdges(InputPlane(0)),
                                 frozen : BOOLEAN, active : {TRUE}]] :
      /\ \A v \in DOMAIN P : P[v].iedge \in {null_iedge, Heading(P, v)}
      /\ \A v \in DOMAIN P : P[v].frozen => P[v].iedge # null_iedge
      /\ Cardinality({ v \in DOMAIN P : ~P[v].frozen }) <= live }

PVertexStates == PVertexStatesUpTo(MaxLive)

InitLate ==
  /\ pc = "initialize_queue"
  /\ m_verbose \in BOOLEAN
  /\ NoIntersectionPass
  /\ \E kk \in 1..MaxK : args = [n |-> 1, k |-> kk, ratio |-> RatioUnit + 1, reorient |-> FALSE]
  /\ time_step \in 1..MaxTimeStep
  /\ nsp = NumBboxFaces + 1
  /\ g_iedges = AddedIEdges(1)
  /\ sp_iedges = AddedSpIEdges(1)
  /\ iplanes = AddedIPlanes(1)
  /\ mesh_valid = [i \in Planes(1) |-> TRUE]
  /\ \E kf \in 1..args.k : k = [f \in AddedFaces(1) |-> IF f = InputFace(0) THEN kf ELSE args.k]
  /\ face_sp = AddedFaceSp(1)
  /\ ring = AddedRing(1)
  /\ pv \in PVertexStates
  /\ current_time = time_step
  /\ m_queue = EmptyBag
  /\ m_min_time = time_step
  /\ m_max_time = 2 * time_step
  /\ windows = 0
  /\ iterations = 0
  /\ integrity = "true"
  /\ checks = 3
  /\ last_pop = NoTime
  /\ trace = NoTraceRecord
  /\ failure = ""
  /\ splits = SplitOrder(nsp)

\* The loop without the lines before it.
NextLate ==
  \/ InitializeQueue
  \/ ApplyPVertexToPVertex
  \/ ApplyPVertexToIEdge
  \/ ApplyPVertexToIVertex
  \/ CheckIntegrity
  \/ RunReturns

LateSpec == InitLate /\ [][NextLate]_vars

(***************************************************************************)
(* apply on a pvertex_to_pvertex event: run taken up at the top of its     *)
(* loop with such an event pending for a vertex and one of its neighbours, *)
(* neither of them frozen, and at most MaxQueue - 1 more events pending.   *)
(***************************************************************************)
\* The vertices that still move when run is taken up with a meeting pending.
MaxMeetLive == 3

MeetingEvents(R, P) ==
  { ev \in [kind : {"pvertex_to_pvertex"}, pvertex : DOMAIN P, pother : DOMAIN P,
            iedge : {null_iedge}, ivertex : {null_ivertex}, time : {0}] :
      /\ has_iedge(P, ev.pvertex)
      /\ ev.pother \in {PrevOf(R, P, ev.pvertex), NextOf(R, P, ev.pvertex)}
      /\ ~P[ev.pvertex].frozen /\ ~P[ev.pother].frozen }

OtherEvents(R, P, hi) ==
  UNION { CandidateEvents(R, P, v, SearchList(AddedSpIEdges(1), P[v].sp), 0, hi) : v \in DOMAIN P }

InitMeet ==
  /\ pc = "run"
  /\ m_verbose \in BOOLEAN
  /\ NoIntersectionPass
  /\ \E kk \in 1..MaxK : args = [n |-> 1, k |-> kk, ratio |-> RatioUnit + 1, reorient |-> FALSE]
  /\ time_step \in 1..MaxTimeStep
  /\ nsp = NumBboxFaces + 1
  /\ g_iedges = AddedIEdges(1)
  /\ sp_iedges = AddedSpIEdges(1)
  /\ iplanes = AddedIPlanes(1)
  /\ mesh_valid = [i \in Planes(1) |-> TRUE]
  /\ k = [f \in AddedFaces(1) |-> args.k]
  /\ face_sp = AddedFaceSp(1)
  /\ ring = AddedRing(1)
  /\ pv \in PVertexStatesUpTo(MaxMeetLive)
  /\ current_time = 0
  /\ \E ev \in MeetingEvents(ring, pv), S \in SubsetsUpTo(OtherEvents(ring, pv, time_step), MaxQueue - 1) :
       /\ \A a, b \in {ev} \cup S : TargetOf(a) = TargetOf(b) => a = b
       /\ m_queue = SetToBag({ev} \cup S)
  /\ m_min_time = 0
  /\ m_max_time = time_step
  /\ windows = 0
  /\ iterations = 0
  /\ integrity = "true"
  /\ checks = 2
  /\ last_pop = NoTime
  /\ trace = NoTraceRecord
  /\ failure = ""
  /\ splits = SplitOrder(nsp)

\* run and the return to partition's loop.
NextMeet ==
  \/ ApplyPVertexToPVertex
  \/ ApplyPVertexToIEdge
  \/ ApplyPVertexToIVertex
  \/ CheckIntegrity
  \/ RunReturns

MeetSpec == InitMeet /\ [][NextMeet]_vars

(***************************************************************************)
(* run taken up with a pvertex_to_ivertex event pending where two input    *)
(* planes meet: the transverse line of input planes 0 and 1 ends at an     *)
(* IVertex of side face 1 of the box, on the side IEdge of either plane,   *)
(* which it cuts in two.  A vertex of each plane can move along its side   *)
(* IEdge towards that IVertex.                                             *)
(***************************************************************************)
TransverseEnd(p, q) == 100 + 10 * p + q
Cut(E, e, iv) == IF e \in E THEN (E \ {e}) \cup { {a, iv} : a \in e } ELSE E

StarPair == <<InputPlane(0), InputPlane(1)>>
StarIVertex == TransverseEnd(StarPair[1], StarPair[2])
StarSpIEdges ==
  [i \in Planes(2) |->
     Cut(Cut(CrossedSpIEdges(AddedSpIEdges(2), {StarPair})[i],
             InputSideIEdge(StarPair[1], 0), StarIVertex),
         InputSideIEdge(StarPair[2], 0), StarIVertex)]
StarIEdges == UNION { StarSpIEdges[i] : i \in Planes(2) }
StarIPlanes == [e \in StarIEdges |-> { i \in Planes(2) : e \in StarSpIEdges[i] }]

\* The part of the side IEdge of plane p between its first end and the
\* IVertex where the transverse line ends.
StarApproach(p) == {InputIVertex(p, 0), StarIVertex}

\* The first vertex of input polygon 0 moves along its side IEdge to the
\* IVertex; the first vertex of input polygon 1 does so or is free; the
\* other vertices are free.
StarPVertexStates ==
  { [AddedPV(2) EXCEPT ![1].iedge = StarApproach(StarPair[1]), ![PolygonSize + 1].iedge = e] :
      e \in {null_iedge, StarApproach(StarPair[2])} }

\* The event of the first vertex, and the events of free vertices of both
\* planes towards the transverse line.
StarEvent == Event("pvertex_to_ivertex", 1, null_pvertex, null_iedge, StarIVertex, 0)
StarOtherEvents(P, hi) ==
  { Event("pvertex_to_iedge", v, null_pvertex, CrossIEdge(StarPair[1], StarPair[2]), null_ivertex, t) :
      <<v, t>> \in { x \in DOMAIN P : ~has_iedge(P, x) } \X (0..hi) }

InitStar ==
  /\ pc = "run"
  /\ m_verbose \in BOOLEAN
  /\ NoIntersectionPass
  /\ \E kk \in 1..MaxK : args = [n |-> 2, k |-> kk, ratio |-> RatioUnit + 1, reorient |-> FALSE]
  /\ time_step \in 1..MaxTimeStep
  /\ nsp = NumBboxFaces + 2
  /\ g_iedges = StarIEdges
  /\ sp_iedges = StarSpIEdges
  /\ iplanes = StarIPlanes
  /\ mesh_valid = [i \in Planes(2) |-> TRUE]
  /\ k = [f \in AddedFaces(2) |-> args.k]
  /\ face_sp = AddedFaceSp(2)
  /\ ring = AddedRing(2)
  /\ pv \in StarPVertexStates
  /\ current_time = 0
  /\ \E S \in SubsetsUpTo(StarOtherEvents(pv, time_step), MaxQueue - 1) :
       /\ \A a, b \in S : TargetOf(a) = TargetOf(b) => a = b
       /\ m_queue = SetToBag({StarEvent} \cup S)
  /\ m_min_time = 0
  /\ m_max_time = time_step
  /\ windows = 0
  /\ iterations = 0
  /\ integrity = "true"
  /\ checks = 2
  /\ last_pop = NoTime
  /\ trace = NoTraceRecord
  /\ failure = ""
  /\ splits = SplitOrder(nsp)

NextStar ==
  \/ ApplyPVertexToIVertex
  \/ ApplyPVertexToIEdge
  \/ ApplyPVertexToPVertex
  \/ CheckIntegrity
  \/ RunReturns

StarSpec == InitStar /\ [][NextStar]_vars

(***************************************************************************)
(* The intersection pass of make_polygons_intersection_free on its own:    *)
(* MaxCrossPlanes input planes, each crossing the next one inside the      *)
(* bounding box, and every list of up to MaxIVertices IVertices lying on   *)
(* one of these lines or on the first plane only, grouped (lines 468-480), *)
(* intersected (lines 483-529) and chained (lines 531-539).  The answers   *)
(* of the 2D                                                               *)
(* intersection are chosen freely: meet is the set of plane sets whose     *)
(* planes have a common point inside the bounding box.                     *)
(***************************************************************************)
MaxCrossPlanes == 4
MaxIVertices == 6

no_element == -1

CrossPlanes == InputPlanes(MaxCrossPlanes)

\* the values of m_data.intersected_planes(ivertex, false) at the start
IVertexPlanes ==
  {{NumBboxFaces}} \cup { {p, p + 1} : p \in { q \in CrossPlanes : q + 1 \in CrossPlanes } }

\* operator< of KSR::Idx_set, the order in which map_p2vv is traversed
RECURSIVE IdxSetLess(_, _)
IdxSetLess(a, b) ==
  IF b = {} THEN FALSE
  ELSE IF a = {} THEN TRUE
  ELSE LET ma == CHOOSE x \in a : \A y \in a : x <= y
           mb == CHOOSE x \in b : \A y \in b : x <= y
       IN  IF ma # mb THEN ma < mb ELSE IdxSetLess(a \ {ma}, b \ {mb})

RECURSIVE KeysInOrder(_)
KeysInOrder(K) ==
  IF K = {} THEN << >>
  ELSE LET a == CHOOSE x \in K : \A y \in K \ {x} : IdxSetLess(x, y)
       IN  <<a>> \o KeysInOrder(K \ {a})

\* lines 468-480: the first IVertex of a key opens the group with a default
\* second IVertex, every later one of the same key becomes the second
RECURSIVE GroupIVertices(_, _, _)
GroupIVertices(ivs, i, map) ==
  IF i > Len(ivs) THEN map
  ELSE LET key == ivs[i] IN
       IF Cardinality(key) < 2
       THEN GroupIVertices(ivs, i + 1, map)
       ELSE IF key \notin DOMAIN map
       THEN GroupIVertices(ivs, i + 1, map @@ (key :> <<i, null_ivertex>>))
       ELSE GroupIVertices(ivs, i + 1, [map EXCEPT ![key] = <<@[1], i>>])

\* lines 495-504: the last index std::set_intersection hands out
common_plane_idx(set_a, set_b) ==
  IF set_a \cap set_b = {} THEN no_element
  ELSE CHOOSE x \in set_a \cap set_b : \A y \in set_a \cap set_b : y <= x

\* KSR::intersection of the segments of two groups: a segment and itself
\* have no single point in common; a segment with a default end is anything
Intersects(map, set_a, set_b, meet) ==
  IF set_a = set_b /\ map[set_a][2] # null_ivertex THEN FALSE
  ELSE (set_a \cup set_b) \in meet

\* m_data.add_ivertex(point, planes): the IVertex of that plane set, created
\* unless the pass created it before; first is the number of IVertices the
\* pass started with
add_ivertex(ivs, first, planes) ==
  LET old == { i \in (first + 1)..Len(ivs) : ivs[i] = planes }
  IN  IF old # {} THEN [iv |-> CHOOSE i \in old : TRUE, ivs |-> ivs]
      ELSE [iv |-> Len(ivs) + 1, ivs |-> Append(ivs, planes)]

\* line 521: after a failed intersection the loop goes on with the next it_b
AfterFailure_Break(j, n) == n + 1

AfterFailure(j, n) == j + 1

\* lines 492-527, the loop over it_b for one it_a
RECURSIVE IntersectWithAll(_, _, _, _, _, _, _)
IntersectWithAll(map, keys, set_a, j, meet, first, st) ==
  IF j > Len(keys) THEN st
  ELSE LET set_b == keys[j]
           idx == common_plane_idx(set_a, set_b)
           union_set == set_a \cup set_b
           found == Intersects(map, set_a, set_b, meet)
           tried == [st EXCEPT !.done = @ \cup {union_set},
                               !.atts = @ \cup {[a |-> set_a, b |-> set_b, plane |-> idx,
                                                 found |-> found, at |-> Len(st.crossed)]}]
           new == add_ivertex(st.ivs, first, union_set)
       IN  IF idx = no_element \/ union_set \in st.done
           THEN IntersectWithAll(map, keys, set_a, j + 1, meet, first, st)
           ELSE IF ~found
           THEN IntersectWithAll(map, keys, set_a, AfterFailure(j, Len(keys)), meet, first, tried)
           ELSE IntersectWithAll(map, keys, set_a, j + 1, meet, first,
                                 [tried EXCEPT !.crossed = Append(@, new.iv), !.ivs = new.ivs])

\* lines 485-529, the loop over it_a
RECURSIVE IntersectLines(_, _, _, _, _, _)
IntersectLines(map, keys, i, meet, first, acc) ==
  IF i > Len(keys) THEN acc
  ELSE LET set_a == keys[i]
           st == IntersectWithAll(map, keys, set_a, 1, meet, first,
                                  [done |-> {}, crossed |-> <<map[set_a][1]>>,
                                   ivs |-> acc.ivs, atts |-> acc.atts])
       IN  IntersectLines(map, keys, i + 1, meet, first,
                          [todo |-> Append(acc.todo, <<set_a, Append(st.crossed, map[set_a][2])>>),
                           ivs |-> st.ivs, atts |-> st.atts])

\* m_data.add_iedge(planes, vertices): one IEdge between every two
\* neighbours of the chain
ChainIEdges(vertices) == { {vertices[i], vertices[i + 1]} : i \in 1..(Len(vertices) - 1) }

TodoIEdges(td) == UNION { ChainIEdges(td[i][2]) : i \in 1..Len(td) }

TodoIPlanes(td, e) == UNION { td[i][1] : i \in { j \in 1..Len(td) : e \in ChainIEdges(td[j][2]) } }

InitMpif ==
  /\ pc = "group_ivertices"
  /\ m_verbose = FALSE
  /\ query = << >>
  /\ inside = FALSE
  /\ result = << >>
  /\ \E n \in 0..MaxIVertices : ivertices \in [1..n -> IVertexPlanes]
  /\ map_p2vv = << >>
  /\ todo = << >>
  /\ attempts = {}
  /\ args = NoArgs
  /\ time_step = 0
  /\ nsp = NumBboxFaces + MaxCrossPlanes
  /\ g_iedges = {}
  /\ sp_iedges = [i \in 0..(nsp - 1) |-> {}]
  /\ iplanes = << >>
  /\ mesh_valid = [i \in 0..(nsp - 1) |-> TRUE]
  /\ k = << >>
  /\ face_sp = << >>
  /\ ring = << >>
  /\ pv = << >>
  /\ current_time = 0
  /\ m_queue = EmptyBag
  /\ m_min_time = NoTime
  /\ m_max_time = NoTime
  /\ windows = 0
  /\ iterations = 0
  /\ integrity = "none"
  /\ checks = 0
  /\ last_pop = NoTime
  /\ trace = NoTraceRecord
  /\ failure = ""
  /\ splits = << >>

\* lines 464-480
GroupByPlanes ==
  /\ pc = "group_ivertices"
  /\ map_p2vv' = GroupIVertices(ivertices, 1, << >>)
  /\ pc' = "intersect_lines"
  /\ UNCHANGED <<m_verbose, distance_vars, ivertices, todo, attempts, splits, args, time_step, data_vars, driver_vars,
                 windows, iterations, hist_vars>>

\* lines 483-529
IntersectGroups ==
  /\ pc = "intersect_lines"
  /\ \E meet \in SUBSET { a \cup b : a, b \in DOMAIN map_p2vv } :
       LET res == IntersectLines(map_p2vv, KeysInOrder(DOMAIN map_p2vv), 1, meet, Len(ivertices),
                                 [todo |-> << >>, ivs |-> ivertices, atts |-> {}])
       IN  /\ todo' = res.todo
           /\ ivertices' = res.ivs
           /\ attempts' = res.atts
  /\ pc' = "add_iedges"
  /\ UNCHANGED <<m_verbose, distance_vars, map_p2vv, splits, args, time_step, data_vars, driver_vars,
                 windows, iterations, hist_vars>>

\* lines 531-539: every entry of todo goes to add_iedge; with a default
\* IVertex in a chain the call reads a vertex that does not exist, and
\* either ends the process or builds the IEdge from what it read
AddIEdges ==
  /\ pc = "add_iedges"
  /\ \/ /\ g_iedges' = g_iedges \cup TodoIEdges(todo)
        /\ iplanes' = [e \in TodoIEdges(todo) |-> TodoIPlanes(todo, e)]
        /\ sp_iedges' = [i \in DOMAIN sp_iedges |->
                           sp_iedges[i] \cup { e \in TodoIEdges(todo) : i \in TodoIPlanes(todo, e) }]
        /\ splits' = splits \o SplitOrder(nsp)
        /\ pc' = "intersection_free"
        /\ UNCHANGED failure
     \/ /\ \E i \in 1..Len(todo) : null_ivertex \in Range(todo[i][2])
        /\ Halt("invalid IVertex")
        /\ UNCHANGED <<g_iedges, iplanes, sp_iedges, splits>>
  /\ UNCHANGED <<m_verbose, distance_vars, ivertices, map_p2vv, todo, attempts, args, time_step, nsp, mesh_valid, k, face_sp, ring, pv,
                 current_time, driver_vars, windows, iterations, integrity, checks, last_pop, trace>>

NextMpif ==
  \/ GroupByPlanes
  \/ IntersectGroups
  \/ AddIEdges

MpifSpec == InitMpif /\ [][NextMpif]_vars

(***************************************************************************)
(* squared_distance_to_triangle on its own: the point and the three        *)
(* corners range over the grid 0..MaxX x 0..MaxYZ x 0..MaxYZ, which holds  *)
(* triangles with a null normal (two equal corners, three corners in a     *)
(* row) and proper ones.  Distances are fractions <<numerator,             *)
(* denominator>>.                                                          *)
(***************************************************************************)
MaxX == 2
MaxYZ == 1

GridPoints == (0..MaxX) \X (0..MaxYZ) \X (0..MaxYZ)

\* K::Construct_vector_3, wdot and wcross for Cartesian coordinates
vector(p, q) == <<q[1] - p[1], q[2] - p[2], q[3] - p[3]>>
wdot(u, v) == u[1] * v[1] + u[2] * v[2] + u[3] * v[3]
wcross(u, v) == <<u[2] * v[3] - u[3] * v[2], u[3] * v[1] - u[1] * v[3], u[1] * v[2] - u[2] * v[1]>>

\* the test of line 45 with < in place of <=
on_left_of_triangle_edge_Strict(pt, normal, ep0, ep1) ==
  wdot(wcross(vector(ep0, ep1), normal), vector(ep0, pt)) < 0

\* on_left_of_triangle_edge (lines 29-47)
on_left_of_triangle_edge(pt, normal, ep0, ep1) ==
  wdot(wcross(vector(ep0, ep1), normal), vector(ep0, pt)) <= 0

\* squared_distance_to_plane(normal, diff): (normal . diff)^2 / normal^2
squared_distance_to_plane(normal, diff) ==
  <<wdot(normal, diff) * wdot(normal, diff), wdot(normal, normal)>>

\* internal::squared_distance(pt, segment(a, b)): to a, to b, or to the
\* line through them, by the place of the projection of pt
squared_distance_to_segment(pt, a, b) ==
  LET diff == vector(a, pt)
      segvec == vector(a, b)
      d == wdot(diff, segvec)
      e == wdot(segvec, segvec)
      wcr == wcross(segvec, diff)
  IN  IF d <= 0 THEN <<wdot(diff, diff), 1>>
      ELSE IF d > e THEN <<wdot(vector(b, pt), vector(b, pt)), 1>>
      ELSE <<wdot(wcr, wcr), e>>

\* (std::min)(a, b) on fractions with positive denominators
FractionMin(a, b) == IF b[1] * a[2] < a[1] * b[2] THEN b ELSE a

\* squared_distance_to_triangle (lines 49-87): the returned value and the
\* flag inside after the call
squared_distance_to_triangle(pt, t0, t1, t2, flag) ==
  LET e1 == vector(t0, t1)
      oe3 == vector(t0, t2)
      normal == wcross(e1, oe3)
      d1 == squared_distance_to_segment(pt, t2, t0)
      d2 == squared_distance_to_segment(pt, t1, t2)
      d3 == squared_distance_to_segment(pt, t0, t1)
  IN  IF /\ normal # <<0, 0, 0>>
         /\ on_left_of_triangle_edge(pt, normal, t0, t1)
         /\ on_left_of_triangle_edge(pt, normal, t1, t2)
         /\ on_left_of_triangle_edge(pt, normal, t2, t0)
      THEN [value |-> squared_distance_to_plane(normal, vector(t0, pt)), inside |-> TRUE]
      ELSE [value |-> FractionMin(FractionMin(d1, d2), d3), inside |-> flag]

InitDistance ==
  /\ pc = "squared_distance_to_triangle"
  /\ m_verbose = FALSE
  /\ query \in [pt : GridPoints, t0 : GridPoints, t1 : GridPoints, t2 : GridPoints]
  /\ inside \in BOOLEAN
  /\ result = << >>
  /\ ivertices = << >>
  /\ map_p2vv = << >>
  /\ todo = << >>
  /\ attempts = {}
  /\ args = NoArgs
  /\ time_step = 0
  /\ nsp = 0
  /\ g_iedges = {}
  /\ sp_iedges = << >>
  /\ iplanes = << >>
  /\ mesh_valid = << >>
  /\ k = << >>
  /\ face_sp = << >>
  /\ ring = << >>
  /\ pv = << >>
  /\ current_time = 0
  /\ m_queue = EmptyBag
  /\ m_min_time = NoTime
  /\ m_max_time = NoTime
  /\ windows = 0
  /\ iterations = 0
  /\ integrity = "none"
  /\ checks = 0
  /\ last_pop = NoTime
  /\ trace = NoTraceRecord
  /\ failure = ""
  /\ splits = << >>

\* One call of squared_distance_to_triangle.
SquaredDistanceToTriangle ==
  /\ pc = "squared_distance_to_triangle"
  /\ LET r == squared_distance_to_triangle(query.pt, query.t0, query.t1, query.t2, inside)
     IN  /\ result' = r.value
         /\ inside' = r.inside
  /\ pc' = "returned"
  /\ UNCHANGED <<m_verbose, graph_vars, query, args, time_step, data_vars, driver_vars, windows,
                 iterations, hist_vars>>

NextDistance == SquaredDistanceToTriangle

DistanceSpec == InitDistance /\ [][NextDistance]_vars

(***************************************************************************)
(* check_integrity on its own: every structure of up to MaxCheckPlanes     *)
(* support planes over MaxCheckIEdges IEdges, consistent or not, and up to *)
(* MaxChecks calls in a row with nothing done in between.                  *)
(***************************************************************************)
MaxCheckPlanes == 2
MaxCheckIEdges == 1
MaxChecks == 2

CheckIEdges == { {i, i + 1} : i \in 0..(MaxCheckIEdges - 1) }

InitIntegrity ==
  /\ pc = "query"
  /\ m_verbose \in BOOLEAN
  /\ NoIntersectionPass
  /\ args = NoArgs
  /\ time_step = 0
  /\ nsp \in 1..MaxCheckPlanes
  /\ g_iedges = CheckIEdges
  /\ sp_iedges \in [0..(nsp - 1) -> SUBSET CheckIEdges]
  /\ iplanes \in [CheckIEdges -> SUBSET (0..(nsp - 1))]
  /\ mesh_valid \in [0..(nsp - 1) -> BOOLEAN]
  /\ k = << >>
  /\ face_sp = << >>
  /\ ring = << >>
  /\ pv = << >>
  /\ current_time = 0
  /\ m_queue = EmptyBag
  /\ m_min_time = NoTime
  /\ m_max_time = NoTime
  /\ windows = 0
  /\ iterations = 0
  /\ integrity = "none"
  /\ checks = 0
  /\ last_pop = NoTime
  /\ trace = NoTraceRecord
  /\ failure = ""
  /\ splits = << >>

QueryIntegrity ==
  /\ pc = "query"
  /\ checks < MaxChecks
  /\ CheckIntegrityCall("query")

NextIntegrity == QueryIntegrity

IntegritySpec == InitIntegrity /\ [][NextIntegrity]_vars

(***************************************************************************)
(* Properties.                                                             *)
(***************************************************************************)
Removals == {"remove_events(pvertex)", "remove_events(iedge)"}
Called(op) == \E i \in 1..Len(trace.ops) : trace.ops[i] = op

\* C1: a partition call with an empty input, k = 0 or enlarge_bbox_ratio < 1
\* returns false without an assertion and leaves the support planes, the
\* intersection graph, the queue and both times as they were; on a fresh
\* instance number_of_support_planes() is 0 after it as before.
C1_RejectedCallChangesNothing ==
  /\ [](pc = "returned_false" => (nsp = 0 /\ m_queue = EmptyBag /\ m_min_time = NoTime
                                    /\ m_max_time = NoTime /\ failure = ""))
  /\ [][(pc \in {"idle", "returned_false"}
           /\ (args'.n = 0 \/ args'.k = 0 \/ args'.ratio < RatioUnit))
          => (pc' = "returned_false" /\ failure' = "" /\ UNCHANGED <<data_vars, driver_vars>>)]_vars

C1_Witness ==
  pc = "returned_false" /\ args.n > 0 /\ args.k = 0 /\ args.ratio >= RatioUnit /\ nsp = 0

\* C2: a call with non-empty input, k >= 1, reorient = false and
\* enlarge_bbox_ratio = 1 is neither rejected nor ended by an assertion of the
\* bounding-box construction.
C2_RatioOneAccepted ==
  (args.n > 0 /\ args.k >= 1 /\ ~args.reorient /\ args.ratio = RatioUnit)
    => (pc # "returned_false" /\ ~(pc = "aborted" /\ nsp = 0))

\* C3: after set_k_intersections(k0) every PFace has 1 <= k <= k0, no k ever
\* increases, and the assertion k(pface) >= 1 of apply never fails.
C3_KBounded ==
  /\ [](\A f \in DOMAIN k : 1 <= k[f] /\ k[f] <= args.k)
  /\ [](failure # "k(pface) >= 1")
  /\ [][\A f \in DOMAIN k : k'[f] <= k[f]]_vars

C3_Witness ==
  \E f \in DOMAIN k : k[f] = 1 /\ args.k > 1 /\ trace.pface = f /\ trace.kbefore = 2

\* C4: inside one call of run the times of the popped events never decrease,
\* and every event pending after an apply is not earlier than the event just
\* applied.
C4_PopTimesMonotonic ==
  /\ [](pc = "run_check" => \A ev \in BagToSet(m_queue) : ev.time >= last_pop)
  /\ [][(pc = "run" /\ pc' \in {"run_check", "aborted"}) => last_pop' >= last_pop]_vars

C4_Witness ==
  pc = "run_check" /\ iterations = 2 /\ last_pop > 0 /\ m_queue # EmptyBag

\* C5: inside one apply no remove_events call follows a
\* compute_events_of_vertices call.
C5_RemovalsBeforeComputes ==
  \A i \in 1..Len(trace.ops) : \A j \in 1..Len(trace.ops) :
    (i < j /\ trace.ops[i] = "compute_events_of_vertices") => trace.ops[j] \notin Removals

\* C6: a check_integrity call that fails ends the run, whatever m_verbose is.
C6_FailedCheckAborts ==
  integrity = "false" => pc = "aborted"

\* C7: check_integrity returns true exactly if every plane's mesh is valid and,
\* for every plane p and IEdge e, e is listed by p exactly if p is among the
\* planes e intersects.
Consistent ==
  /\ \A p \in 0..(nsp - 1) : mesh_valid[p]
  /\ \A p \in 0..(nsp - 1) : \A e \in g_iedges : (e \in sp_iedges[p]) <=> (p \in iplanes[e])

C7_IntegrityIffConsistent ==
  /\ integrity = "true" => Consistent
  /\ integrity = "false" => ~Consistent
  /\ failure = "ERROR: integrity" => ~Consistent
  /\ (checks > 0 /\ Consistent) => integrity = "true"

C7_Witness ==
  /\ integrity = "false"
  /\ \A p \in 0..(nsp - 1) : mesh_valid[p]
  /\ \A p \in 0..(nsp - 1) : \A e \in sp_iedges[p] : p \in iplanes[e]

\* C8: a call of check_integrity changes neither the support planes, the
\* intersection graph, the queue nor the time window, and a call that follows
\* another with nothing in between returns the same value.
C8_CheckIsPure ==
  [][pc = "query" =>
       /\ UNCHANGED <<data_vars, driver_vars>>
       /\ (integrity # "none" /\ pc' = "query") => integrity' = integrity]_vars

C8_Witness ==
  pc = "query" /\ checks = 2 /\ integrity = "false"

\* C9: a single-vertex crossing calls crop_polygon exactly if bbox_reached or
\* (collision and k = 1), and propagate_polygon in every other case; it calls
\* exactly one of the two.
C9_SingleStopsIff ==
  trace.kind = "single" =>
    LET stop == trace.bbox_reached \/ (trace.collision /\ trace.kbefore = 1)
    IN  /\ Called("crop_polygon") <=> stop
        /\ Called("propagate_polygon") <=> ~stop

C9_Witness ==
  /\ trace.kind = "single"
  /\ ~trace.bbox_reached /\ trace.collision /\ trace.kbefore = 1
  /\ Called("crop_polygon")

\* C10: a pvertex_to_iedge event lowers the k of the event vertex's face by 1
\* exactly if the bbox is not reached, a collision exists at the IEdge and
\* k > 1; it changes the k of no other face.
C10_DecrementIff ==
  [][(pc = "run" /\ trace'.kind \in {"single", "pair"}) =>
       LET t == trace'
           spend == /\ ~(t.bbox_reached \/ t.bbox_reached_other)
                    /\ (t.collision \/ t.collision_other)
                    /\ t.kbefore > 1
       IN  \A f \in DOMAIN k :
             k'[f] = IF f = t.pface /\ spend THEN k[f] - 1 ELSE k[f]]_vars

C10_Witness ==
  /\ trace.kind = "pair"
  /\ ~trace.collision /\ trace.collision_other
  /\ k[trace.pface] = trace.kbefore - 1

\* C12: initialize_queue returns true (run is entered) exactly if at least one
\* event was pushed for the window: right after it has returned true the queue
\* is not empty, and after it has returned false the queue is empty.
C12_TrueIffPushed ==
  /\ (pc = "run" /\ iterations = 0) => m_queue # EmptyBag
  /\ pc = "final_check" => m_queue = EmptyBag

\* C14: the queue is empty whenever run has returned: at the integrity check
\* of the window, at every call of initialize_queue and when the loop has
\* ended; with k = 1 every PFace has k = 1 when partition returns.
C14_EmptyQueueAtTheEnd ==
  /\ pc \in {"window_check", "initialize_queue", "final_check", "returned_true"}
       => m_queue = EmptyBag
  /\ (pc = "returned_true" /\ args.k = 1) => \A f \in DOMAIN k : k[f] = 1

C14_Witness ==
  /\ pc = "returned_true" /\ args.k = 1
  /\ windows = 1 /\ last_pop # NoTime

\* C13: applying a pvertex_to_pvertex event first erases the pending events
\* of both vertices; if both vertices have an IEdge the run ends there with
\* the assertion for two constrained vertices: transfer_vertex is not called,
\* nothing is pushed, and nothing is applied after the assertion.
C13_TwoConstrainedAbort ==
  /\ [][(pc = "run" /\ trace'.kind = "pvertex_to_pvertex") =>
          \E ev \in Earliest(m_queue) :
            /\ ev.kind = "pvertex_to_pvertex" /\ ev.pother = trace'.partner
            /\ Len(trace'.ops) >= 2
            /\ trace'.ops[1] = "remove_events(pvertex)" /\ trace'.ops[2] = "remove_events(pvertex)"
            /\ (has_iedge(pv, ev.pvertex) /\ has_iedge(pv, ev.pother)) =>
                 /\ pc' = "aborted"
                 /\ failure' = "TODO: ADD CASE TWO CONSTRAINED PVERTICES MEET!"
                 /\ Len(trace'.ops) = 2
                 /\ m_queue' = ErasePVertex(ErasePVertex(m_queue (-) SetToBag({ev}), ev.pvertex),
                                            ev.pother)
                 /\ pv' = pv /\ ring' = ring]_vars
  /\ [][pc # "aborted"]_vars

C13_Witness ==
  /\ pc = "aborted"
  /\ failure = "TODO: ADD CASE TWO CONSTRAINED PVERTICES MEET!"
  /\ trace.kind = "pvertex_to_pvertex"
  /\ ~Called("transfer_vertex") /\ ~Called("compute_events_of_vertices")
  /\ m_queue # EmptyBag
  /\ \A ev \in BagToSet(m_queue) : ev.pvertex # trace.partner /\ ev.pother # trace.partner

\* The events a step has added to the queue.
Pushed == BagToSet(m_queue') \ BagToSet(m_queue)

\* C15 as stated: the time carried by a pushed event is the travel time of
\* its vertex from the position at the start of the window, distance over
\* speed, which is at most the length of the window.
C15_TimeIsTravelTime ==
  [][\A ev \in Pushed : \E time \in 0..(m_max_time' - m_min_time') : ev.time = time]_vars

\* C15 amended: the time carried by a pushed event is m_min_time plus the
\* travel time of its vertex from the position at m_min_time.
C15_TimeIsWindowStartPlusTravelTime ==
  [][\A ev \in Pushed : \E time \in 0..(m_max_time' - m_min_time') :
       ev.time = m_min_time' + time]_vars

C15_Witness ==
  /\ pc = "run_check"
  /\ m_min_time > 0
  /\ \E ev \in BagToSet(m_queue) : \E i \in 1..Len(trace.batches) :
       ev.pvertex \in Range(trace.batches[i]) /\ ev.time >= m_min_time

\* C16: once set_k_intersections has run, which is after
\* make_polygons_intersection_free and before any event is computed, every
\* PFace of every support plane has the k passed to partition: the faces of
\* the 6 bounding-box planes, of the input polygons and of the splitting.
C16_UniformK ==
  pc \in {"check_bbox", "exited"} =>
    /\ AddedFaces(args.n) \subseteq DOMAIN k
    /\ \A f \in DOMAIN k : k[f] = args.k
    /\ m_queue = EmptyBag

C16_Witness ==
  /\ pc = "check_bbox"
  /\ args.k > 1
  /\ \E f \in DOMAIN k : f \notin AddedFaces(args.n) /\ k[f] = args.k
  /\ \E f \in DOMAIN k : face_sp[f] < NumBboxFaces /\ k[f] = args.k

\* C17: a call that passes the validation ends the process with success at
\* the exit that follows check_bbox: it does not end in an assertion, the
\* propagation (initialize_queue, run, apply) is never reached, no event is
\* pushed, both times stay -1 and partition never returns true.
C17_ValidatedCallExits ==
  /\ pc \notin {"propagation", "initialize_queue", "run", "run_check", "window_check",
                "final_check", "returned_true"}
  /\ m_queue = EmptyBag /\ m_min_time = NoTime /\ m_max_time = NoTime
  /\ pc # "aborted"

\* C18: after a pvertex_to_pvertex event of a constrained and a free vertex,
\* the events of both vertices of the pair are recomputed, whether or not the
\* transfer succeeded: the vertex the event names as pother, whose events
\* were erased, is in a batch handed to compute_events_of_vertices.
C18_BothRecomputed ==
  (trace.kind = "pvertex_to_pvertex" /\ Called("transfer_vertex") /\ pc # "aborted") =>
    \E i \in 1..Len(trace.batches) : trace.partner \in Range(trace.batches[i])

\* C19: the events of a vertex are erased before compute_events_of_vertex
\* runs for it, so the queue never holds two events of the same kind with the
\* same moving vertex and the same target.
C19_NoDuplicateEvents ==
  \A a \in BagToSet(m_queue) :
    /\ m_queue[a] = 1
    /\ \A b \in BagToSet(m_queue) : TargetOf(a) = TargetOf(b) => a = b

\* The pvertex_to_iedge events one of which the step has popped.
PoppedToIEdge == { ev \in Earliest(m_queue) : ev.kind = "pvertex_to_iedge" }

\* C20 as stated: a pvertex_to_iedge event is a two-vertex crossing whenever
\* the boundary edge to prev or to next is parallel to the target IEdge, and
\* a single-vertex crossing otherwise; prev is tested before next and the
\* first parallel neighbour is the partner.
C20_PairIffParallel ==
  [][(pc = "run" /\ trace'.kind \in {"single", "pair"}) =>
       \E ev \in PoppedToIEdge :
         LET par == trace'.parallel
         IN  /\ trace'.kind = "pair" <=> (par[1] \/ par[2])
             /\ trace'.kind = "pair" =>
                  trace'.partner = IF par[1] THEN PrevOf(ring, pv, ev.pvertex)
                                   ELSE NextOf(ring, pv, ev.pvertex)]_vars

\* C20 amended: the event is a two-vertex crossing whenever the event vertex
\* and a neighbour are both free (neither has an IEdge) and the boundary edge
\* between them is parallel to the target IEdge, and a single-vertex crossing
\* otherwise; prev is tested before next and the first neighbour that passes
\* both tests is the partner.
C20_PairIffFreeAndParallel ==
  [][(pc = "run" /\ trace'.kind \in {"single", "pair"}) =>
       \E ev \in PoppedToIEdge :
         LET prev == PrevOf(ring, pv, ev.pvertex)
             next == NextOf(ring, pv, ev.pvertex)
             with_prev == ~has_iedge(pv, ev.pvertex) /\ ~has_iedge(pv, prev) /\ trace'.parallel[1]
             with_next == ~has_iedge(pv, ev.pvertex) /\ ~has_iedge(pv, next) /\ trace'.parallel[2]
         IN  /\ trace'.kind = "pair" <=> (with_prev \/ with_next)
             /\ trace'.kind = "pair" => trace'.partner = IF with_prev THEN prev ELSE next]_vars

\* A two-vertex crossing with prev although next is parallel too.
C20_Witness ==
  /\ pc = "run_check"
  /\ trace.kind = "pair"
  /\ trace.parallel = <<TRUE, TRUE>>
  /\ trace.partner # null_pvertex
  /\ Called("compute_events_of_vertices")

\* C21: in a two-vertex crossing the polygon stops (crop_polygon) iff the bbox
\* is reached or one of the two vertices collides and the budget is 1; the
\* budget is decremented iff the bbox is not reached, one of them collides
\* and the budget is above 1; otherwise propagate_polygon is called for the
\* pair; one of crop_polygon and propagate_polygon is called, never both.
C21_JointStopIff ==
  trace.kind = "pair" =>
    LET c == trace.collision \/ trace.collision_other
        bbox == trace.bbox_reached \/ trace.bbox_reached_other
        stop == bbox \/ (c /\ trace.kbefore = 1)
    IN  /\ Called("crop_polygon") <=> stop
        /\ k[trace.pface] = trace.kbefore - 1 <=> (~bbox /\ c /\ trace.kbefore > 1)
        /\ k[trace.pface] \in {trace.kbefore, trace.kbefore - 1}
        /\ ~stop => Called("propagate_polygon")
        /\ ~(Called("crop_polygon") /\ Called("propagate_polygon"))

\* C22: in the four pvertex_to_iedge branches the events keyed on the consumed
\* IEdge and the plane of the event vertex are erased after crop_polygon or
\* propagate_polygon and before events are recomputed, so that such an event
\* in the queue afterwards is one recomputed for a vertex of the batch; the
\* batch has 2 vertices on a stop ({pvertex, new vertex} or {pvertex, pother}),
\* 3 on a single-vertex continue and 4 on a two-vertex continue.
C22_ConsumedIEdgePurged ==
  [][(pc = "run" /\ pc' = "run_check" /\ trace'.kind \in {"single", "pair"}) =>
       \E ev \in PoppedToIEdge :
         LET n == Len(trace'.ops)
             batch == trace'.batches[1]
             stop == trace'.ops[n - 2] = "crop_polygon"
         IN  /\ n >= 3 /\ Len(trace'.batches) = 1
             /\ trace'.ops[n - 2] \in {"crop_polygon", "propagate_polygon"}
             /\ trace'.ops[n - 1] = "remove_events(iedge)"
             /\ trace'.ops[n] = "compute_events_of_vertices"
             /\ \A i \in 1..(n - 3) : trace'.ops[i] = "remove_events(pvertex)"
             /\ \A q \in BagToSet(m_queue') :
                  (q.iedge = ev.iedge /\ pv'[q.pvertex].sp = pv[ev.pvertex].sp) => q.pvertex \in Range(batch)
             /\ Len(batch) = IF stop THEN 2 ELSE IF trace'.kind = "single" THEN 3 ELSE 4
             /\ (stop /\ trace'.kind = "pair") => batch = <<ev.pvertex, trace'.partner>>
             /\ (stop /\ trace'.kind = "single") =>
                  (batch[1] = ev.pvertex /\ batch[2] \in DOMAIN pv' \ DOMAIN pv)
             /\ (~stop /\ trace'.kind = "pair") =>
                  (batch[1] = ev.pvertex /\ batch[2] = trace'.partner)]_vars

\* A two-vertex continue: four vertices recomputed.
C22_Witness ==
  /\ pc = "run_check"
  /\ trace.kind = "pair"
  /\ Called("propagate_polygon")
  /\ Len(trace.batches) = 1 /\ Len(trace.batches[1]) = 4
  /\ m_queue # EmptyBag

\* The pvertex_to_ivertex events one of which the step has popped.
PoppedToIVertex == { ev \in Earliest(m_queue) : ev.kind = "pvertex_to_ivertex" }

\* C23: in a pvertex_to_ivertex event whose star has n >= 1 vertices,
\* remove_events runs for the vertices at positions 1 .. n - 2 and for no
\* other, before merge_pvertices_on_ivertex: the pending events of the first
\* and of the last vertex stay in the queue (but for those on an IEdge the
\* merge crossed, purged after the merge), and an inner vertex the merge has
\* frozen has no event left.
C23_InteriorErasedOnly ==
  [][(pc = "run" /\ trace'.kind = "pvertex_to_ivertex") =>
       \E ev \in PoppedToIVertex :
         LET star == trace'.star
             n == Len(star)
             inner == { star[i] : i \in 2..(n - 1) }
             ends == {star[1], star[n]} \ inner
             nrem == IF n > 2 THEN n - 2 ELSE 0
             rest == m_queue (-) SetToBag({ev})
         IN  /\ n >= 1 /\ ev.pvertex \in Range(star)
             /\ Len(trace'.ops) > nrem
             /\ \A i \in 1..nrem : trace'.ops[i] = "remove_events(pvertex)"
             /\ trace'.ops[nrem + 1] = "merge_pvertices_on_ivertex"
             /\ \A i \in (nrem + 2)..Len(trace'.ops) : trace'.ops[i] # "remove_events(pvertex)"
             /\ \A q \in BagToSet(rest) :
                  (q.pvertex \in ends /\ q.iedge \notin trace'.crossed) =>
                    (q \in BagToSet(m_queue') /\ m_queue'[q] >= rest[q])
             /\ \A x \in inner : pv'[x].frozen => \A q \in BagToSet(m_queue') : q.pvertex # x]_vars

\* A star of three vertices: the event vertex is frozen and loses its other
\* event, its neighbour keeps one.
C23_Witness ==
  /\ pc = "run_check"
  /\ trace.kind = "pvertex_to_ivertex"
  /\ trace.ops[1] = "remove_events(pvertex)"
  /\ \E v \in DOMAIN pv : pv[v].frozen /\ <<v>> \in Range(trace.batches)
  /\ m_queue # EmptyBag

\* C24: after merge_pvertices_on_ivertex has returned the crossed IEdges and
\* before new events are computed, no pending event refers to a crossed
\* IEdge on a support plane one of whose vertices took part in the merge: such
\* an event in the queue after the apply is one recomputed for a vertex the
\* merge returned.
C24_CrossedPurgedOnAllPlanes ==
  (pc = "run_check" /\ trace.kind = "pvertex_to_ivertex") =>
    \A q \in BagToSet(m_queue) :
      (q.iedge \in trace.crossed /\ pv[q.pvertex].sp \in { pv[x].sp : x \in Range(trace.star) })
        => q.pvertex \in Range(trace.batches[1])

\* C25: after the merge of a pvertex_to_ivertex event,
\* compute_events_of_vertices is called once, after the purge of the crossed
\* IEdges, with the vertices the merge returned, each of them once and every
\* vertex the merge created among them; a merge that returns no vertex ends
\* in the assertion new_pvertices.size() > 0 and pushes nothing.
C25_RecomputedOnceEach ==
  [][(pc = "run" /\ trace'.kind = "pvertex_to_ivertex") =>
       LET ops == trace'.ops
           n == Len(ops)
       IN  IF pc' = "aborted"
           THEN /\ failure' = "new_pvertices.size() > 0"
                /\ \A i \in 1..n : ops[i] # "compute_events_of_vertices"
                /\ trace'.batches = << >>
                /\ DOMAIN pv' = DOMAIN pv
                /\ \A q \in BagToSet(m_queue') : q \in BagToSet(m_queue) /\ m_queue'[q] <= m_queue[q]
           ELSE /\ n >= 2
                /\ ops[n] = "compute_events_of_vertices"
                /\ \A i \in 1..(n - 1) : ops[i] # "compute_events_of_vertices"
                /\ \E j \in 1..(n - 1) :
                     /\ ops[j] = "merge_pvertices_on_ivertex"
                     /\ \A i \in (j + 1)..(n - 1) : ops[i] = "remove_events(iedge)"
                     /\ n - 1 - j = Cardinality(trace'.crossed)
                /\ Len(trace'.batches) = 1
                /\ LET batch == trace'.batches[1]
                   IN  /\ Len(batch) >= 1
                       /\ \A a, b \in 1..Len(batch) : batch[a] = batch[b] => a = b
                       /\ (DOMAIN pv' \ DOMAIN pv) \subseteq Range(batch)
                       /\ Range(batch) \subseteq DOMAIN pv']_vars

\* A merge that returned the event vertex and a new one: both recomputed.
C25_Witness ==
  /\ pc = "run_check"
  /\ trace.kind = "pvertex_to_ivertex"
  /\ Len(trace.batches) = 1 /\ Len(trace.batches[1]) = 2
  /\ trace.crossed # {}

\* C26: every event pushed, of any of the three kinds, has a time inside the
\* window in force at the push, m_min_time <= t <= m_max_time; the time of a
\* pvertex_to_ivertex event is below m_max_time.
C26_PushedInsideWindow ==
  [][\A ev \in Pushed :
       /\ m_min_time' <= ev.time /\ ev.time <= m_max_time'
       /\ ev.kind = "pvertex_to_ivertex" => ev.time < m_max_time']_vars

\* An event pushed by an apply at the very end of the window.
C26_Witness ==
  /\ pc = "run_check"
  /\ m_min_time > 0
  /\ \E ev \in BagToSet(m_queue) :
       /\ ev.time = m_max_time
       /\ \E i \in 1..Len(trace.batches) : ev.pvertex \in Range(trace.batches[i])

C28_OnlyPairsChained ==
  /\ \A key \in DOMAIN map_p2vv :
       /\ Cardinality(key) >= 2
       /\ \A j \in 1..2 : map_p2vv[key][j] # null_ivertex => ivertices[map_p2vv[key][j]] = key
  /\ \A i \in 1..Len(todo) : map_p2vv[todo[i][1]][2] # null_ivertex
  /\ \A t \in attempts : map_p2vv[t.a][2] # null_ivertex /\ map_p2vv[t.b][2] # null_ivertex
  /\ \A e \in g_iedges : null_ivertex \notin e

\* C29: a 2D intersection is attempted only for two distinct groups whose
\* plane sets have exactly one plane in common, and in that plane; every
\* attempt that finds a point adds one IVertex tagged with the union of
\* the two plane sets, placed between the two extremes of the chain of the
\* first group.
C29_OneCommonPlane ==
  /\ \A t \in attempts :
       /\ t.a # t.b
       /\ t.a \cap t.b = {t.plane}
  /\ \A t \in attempts : \A i \in 1..Len(todo) :
       (t.found /\ todo[i][1] = t.a) =>
          /\ 1 < t.at + 1 /\ t.at + 1 < Len(todo[i][2])
          /\ ivertices[todo[i][2][t.at + 1]] = t.a \cup t.b

\* C30: a 2D intersection that finds no point adds no IVertex and raises no
\* error; the loop goes on, so that every group is still tried against
\* every group it shares a plane with (once for every union of plane sets),
\* only the attempts that found a point add an IVertex to the graph and to
\* the chain, and every group gets a chain from its first to its second
\* extreme.
C30_FailureSkipsOnlyItself ==
  [][pc = "intersect_lines" =>
       /\ pc' = "add_iedges" /\ failure' = ""
       /\ Len(todo') = Cardinality(DOMAIN map_p2vv)
       /\ Len(ivertices') = Len(ivertices)
                            + Cardinality({ t.a \cup t.b : t \in { u \in attempts' : u.found } })
       /\ \A i \in 1..Len(todo') :
            LET set_a == todo'[i][1]
                chain == todo'[i][2]
            IN  /\ set_a \in DOMAIN map_p2vv
                /\ chain[1] = map_p2vv[set_a][1]
                /\ chain[Len(chain)] = map_p2vv[set_a][2]
                /\ Len(chain) = 2 + Cardinality({ t \in attempts' : t.a = set_a /\ t.found })
                /\ \A set_b \in DOMAIN map_p2vv :
                     set_a \cap set_b # {} =>
                       \E t \in attempts' : t.a = set_a /\ t.a \cup t.b = set_a \cup set_b]_vars

C30_Witness ==
  /\ pc = "add_iedges"
  /\ \E t, u \in attempts :
       /\ t.a = u.a /\ t.a # t.b /\ u.a # u.b
       /\ ~t.found /\ u.found
       /\ IdxSetLess(t.b, u.b)
       /\ \A key \in {t.a, t.b, u.b} : map_p2vv[key][2] # null_ivertex

\* C31: split_support_plane is called once for every support plane, in the
\* order 0, 1, .., n-1, in one go: after the IEdges of the transverse lines
\* were added, before set_k_intersections and before any event exists, and
\* never again.
C31_SplitOncePerPlane ==
  [][/\ splits' # splits =>
          /\ splits = << >>
          /\ splits' = [i \in 1..nsp |-> i - 1]
          /\ pc = "refine_polygons"
          /\ g_iedges' = g_iedges
          /\ m_queue = EmptyBag
     /\ g_iedges' # g_iedges => splits' = << >>
     /\ (pc \in {"set_k_intersections", "check_bbox", "exited"} \/ m_queue # EmptyBag) =>
          /\ splits = [i \in 1..nsp |-> i - 1]
          /\ splits' = splits]_vars

C31_Witness ==
  /\ pc = "set_k_intersections"
  /\ Len(splits) = nsp
  /\ nsp > NumBboxFaces
  /\ \E pq \in PlanePairs(args.n) : CrossIEdge(pq[1], pq[2]) \in g_iedges

\* C32: the n-th call of initialize_queue (n = 0, 1, ..) finds the window
\* [n * time_step, (n + 1) * time_step]; when partition advances the window
\* the new m_min_time is the old m_max_time, whatever run made of
\* m_min_time, and m_min_time <= m_max_time in every state of the loop.
C32_ContiguousWindows ==
  [][/\ pc' = "initialize_queue" =>
          /\ m_min_time' = windows' * time_step
          /\ m_max_time' = (windows' + 1) * time_step
     /\ windows' = windows + 1 =>
          /\ m_min_time' = m_max_time
          /\ m_max_time' = m_max_time + time_step
     /\ pc' \in {"initialize_queue", "run", "run_check", "window_check"} =>
          m_min_time' <= m_max_time']_vars

C32_Witness ==
  /\ pc = "initialize_queue"
  /\ windows = 1
  /\ time_step > 0
  /\ last_pop > 0

\* C33: squared_distance_to_triangle returns for every triangle.  When the
\* normal is the null vector, or the point is strictly outside one of the
\* three edge half-spaces, the value is the smallest of the three
\* point-to-edge squared distances and inside is left as it was; otherwise
\* the value is the point-to-plane squared distance and inside is true.
C33_EdgeFallback ==
  [][pc = "squared_distance_to_triangle" =>
       LET pt == query.pt
           t0 == query.t0
           t1 == query.t1
           t2 == query.t2
           normal == wcross(vector(t0, t1), vector(t0, t2))
           outside(a, b) == wdot(wcross(vector(a, b), normal), vector(a, pt)) > 0
           edges == { squared_distance_to_segment(pt, t2, t0),
                      squared_distance_to_segment(pt, t1, t2),
                      squared_distance_to_segment(pt, t0, t1) }
           same(x, y) == x[1] * y[2] = y[1] * x[2]
           fallback == normal = <<0, 0, 0>> \/ outside(t0, t1) \/ outside(t1, t2) \/ outside(t2, t0)
       IN  /\ pc' = "returned" /\ failure' = ""
           /\ result'[2] > 0
           /\ fallback =>
                /\ \E d \in edges : same(result', d)
                /\ \A d \in edges : result'[1] * d[2] <= d[1] * result'[2]
                /\ inside' = inside
           /\ ~fallback =>
                /\ same(result', squared_distance_to_plane(normal, vector(t0, pt)))
                /\ inside']_vars

\* a triangle with three distinct corners in a row, the point off them
C33_Witness ==
  /\ pc = "returned"
  /\ ~inside
  /\ wcross(vector(query.t0, query.t1), vector(query.t0, query.t2)) = <<0, 0, 0>>
  /\ Cardinality({query.t0, query.t1, query.t2}) = 3
  /\ result[1] > 0

\* C34: when an event is applied the current time is the time of the event;
\* a call of compute_events_of_vertices inside apply, and initialize_queue,
\* return with the current time equal to m_min_time, inside run the time of
\* the event; neither changes m_max_time.
C34_PositionsAtEventTime ==
  [][/\ iterations' = iterations + 1 =>
          /\ current_time' = last_pop'
          /\ \E ev \in Earliest(m_queue) : ev.time = last_pop'
          /\ m_max_time' = m_max_time
          /\ Len(trace'.batches) > 0 => m_min_time' = current_time'
          /\ Len(trace'.batches) = 0 => m_min_time' = m_min_time
     /\ pc = "initialize_queue" =>
          /\ current_time' = m_min_time'
          /\ m_min_time' = m_min_time
          /\ m_max_time' = m_max_time]_vars

C34_Witness ==
  /\ pc = "run_check"
  /\ Len(trace.batches) > 0
  /\ windows = 0
  /\ last_pop > 0
  /\ current_time = last_pop
  /\ m_min_time = last_pop

C36_OwnPlaneSearchList ==
  \A i \in 1..Len(trace.batches) : \A v \in Range(trace.batches[i]) :
    /\ pv[v].sp = pv[trace.batches[i][1]].sp
    /\ SearchList(sp_iedges, pv[v].sp) = SearchList(sp_iedges, pv[trace.batches[i][1]].sp)

\* C37: when the event vertex and its partner cross an IEdge together and
\* exactly one of the two calls of collision_occured reports bbox_reached,
\* the process ends on an assertion and the event is neither cropped nor
\* propagated; every pair crossing that is carried out has the two answers
\* equal.
C37_BboxAgreement ==
  [][(iterations' = iterations + 1 /\ trace'.kind = "pair") =>
       /\ trace'.bbox_reached # trace'.bbox_reached_other =>
            /\ pc' = "aborted"
            /\ failure' = "bbox_reached / bbox_reached_other"
            /\ ~Called("crop_polygon")' /\ ~Called("propagate_polygon")'
            /\ ring' = ring /\ pv' = pv /\ k' = k
       /\ (Called("crop_polygon")' \/ Called("propagate_polygon")') =>
            trace'.bbox_reached = trace'.bbox_reached_other]_vars

C37_Witness ==
  /\ pc = "aborted"
  /\ trace.kind = "pair"
  /\ trace.bbox_reached # trace.bbox_reached_other
  /\ failure = "bbox_reached / bbox_reached_other"

====
